---- MODULE Spec2Model ----
(***************************************************************************)
(* A model of the letterboxd-utils browser extension: the adaptive         *)
(* rate-limited TMDB client (src/src/tmdb.ts) and the StreamFilter content *)
(* script with its two-tier movie cache (src/src/content-script.ts), the   *)
(* rest of the content script and saveOptions of the options page          *)
(* (src/src/options.ts).                                                   *)
(*                                                                         *)
(* The module holds these specifications over one set of variables:        *)
(*   SpecRate    the TMDBClient of one StreamFilter, called by the lookups *)
(*               of two batches that run at the same time, observing the   *)
(*               runs of equal responses;                                  *)
(*   SpecLookup  the same client, observing what each lookup returns;      *)
(*   Spec        the StreamFilter pipeline over the two cache tiers.       *)
(*   SpecInitial, SpecNegative, SpecStorage, SpecPage, SpecLive, SpecApply *)
(*               the pipeline on the page as loaded, with a record of the  *)
(*               entries written after failures, with a storage that       *)
(*               rejects calls, with untitled posters, under fairness, and *)
(*               with several provider lists;                              *)
(*   SpecDebounce  the observer's timeouts;                                *)
(*   SpecText    getMovieElementInfo and the cache key on texts;           *)
(*   SpecSearch  searchMovie on responses;                                 *)
(*   SpecCountries  getCountries of the background script                  *)
(*               (src/src/background.ts);                                  *)
(*   SpecSerial  the pipeline with one run of processAllMovies at a time;  *)
(*   SpecFade    the opacity the content script sets, under saves of the   *)
(*               options page and clicks on the navigation toggle;         *)
(*   SpecKey     the StreamFilters the content script starts when an API   *)
(*               key is stored;                                            *)
(*   SpecSave    saveOptions beside a run of the filter that writes the    *)
(*               movie cache;                                              *)
(*   SpecCountry the pipeline of a filter with one country code over       *)
(*               entries fetched with another.                             *)
(***************************************************************************)
EXTENDS Integers, Sequences, FiniteSets, TLC

VARIABLES
    rps,            \* TMDBClient.rps
    sinceLastCall,  \* Date.now() - TMDBClient.lastCallTime, in ms, capped at Horizon
    callers,        \* the lookups that are inside the client, one per running batch
    lastGapOk,      \* history: the last outbound request kept its distance
    run429,         \* history: length of the current run of 429 responses (capped)
    runOk,          \* history: length of the current run of 2xx responses (capped)
    lastReturn,     \* history: the last response and what its lookup returned or threw
    sleeps,         \* how many lookups have had to wait in rateLimit so far
    now,            \* Date.now() as the StreamFilter reads it
    dom,            \* the .film-poster elements in the document
    cacheKey,       \* per element: the cacheKey getMovieElementInfo derives from its text
    mark,           \* per element: its class list holds 'unavailable-movie'
    started,        \* observePage has been called
    observing,      \* the MutationObserver is installed
    debounceTimer,  \* StreamFilter.debounceTimer is armed and has not fired
    processedElements, \* StreamFilter.processedElements
    memoryCache,    \* StreamFilter.memoryCache
    movieCache,     \* browser.storage.local 'movieCache'
    batches,        \* the runs of processAllMovies in progress
    lastSet,        \* history: per key, the entry of the latest setMovieCache call
    tally,          \* history: per run, the requests and puts made for the element it resolves
    faults,         \* how many storage calls have been rejected so far
    negAt,          \* history: per key, when the entry written after exhausted retries was set
    knew,           \* history: per run, the keys that had such an entry, still fresh, at its start
    titled,         \* per element: getMovieElementInfo gives it a title that is not empty
    timers,         \* the ms left to each pending timeout of the observer callback
    quiet,          \* history: ms since the last mutation notification (capped at DebounceMs)
    flushes,        \* history: processMutations calls since the last notification (capped)
    burst,          \* history: notifications in the current burst (0, 1, or 2 for several)
    text,           \* the textContent of the .frame-title node of two posters
    info,           \* what getMovieElementInfo returns for each of the two
    response,       \* the response to a /search/movie request: status and parsed body
    found,          \* what searchMovie made of it
    cachedCountries, \* background.ts: cachedCountries
    asks,           \* the getCountries messages the background script is answering
    got,            \* history: the last region list fetched that was not empty
    settings,       \* browser.storage.local: the keys the options page saves
    css,            \* --unavailable-movie-opacity of the page, in tenths
    page,           \* the content script: what its initialization has set up
    pending,        \* the storage calls of the content script's callbacks, in order of issue
    filters,        \* the StreamFilter instances the content script has started
    keyChanges,     \* history: storage changes with a tmdbApiKey seen by the warning's listener
    save,           \* the options page: saveOptions in progress and its settings object
    overlap,        \* history: the runs whose put in flight has met a save on its way
    countryCode,    \* StreamFilter.countryCode
    fetchedUnder    \* history: per key, the country code its persisted entry was fetched with

rateVars == <<rps, sinceLastCall, callers, lastGapOk, run429, runOk, lastReturn, sleeps>>

pipeVars == <<now, dom, cacheKey, mark, started, observing, debounceTimer, processedElements,
              memoryCache, movieCache, batches, lastSet>>

obsVars == <<tally, faults, negAt, knew>>

\* What only some of the specifications let change.
timerVars == <<timers, quiet, flushes, burst>>
textVars == <<text, info>>
\* The state outside the pipeline and its timers.
searchVars == <<response, found>>
countryVars == <<cachedCountries, asks, got>>
scriptVars == <<settings, css, page, pending, filters, keyChanges, save, overlap>>
originVars == <<countryCode, fetchedUnder>>
sideVars == <<textVars, searchVars, countryVars, scriptVars, originVars>>
auxVars == <<titled, timerVars, sideVars>>

vars == <<rps, sinceLastCall, callers, lastGapOk, run429, runOk, lastReturn, sleeps,
          now, dom, cacheKey, mark, started, observing, debounceTimer, processedElements,
          memoryCache, movieCache, batches, lastSet, tally, faults, negAt, knew,
          titled, timers, quiet, flushes, burst, text, info, response, found,
          cachedCountries, asks, got, settings, css, page, pending, filters, keyChanges,
          save, overlap, countryCode, fetchedUnder>>

Max(a, b) == IF a >= b THEN a ELSE b
Min(a, b) == IF a <= b THEN a ELSE b
\* the least integer n with n * d >= x, for d > 0
CeilDiv(x, d) == IF x <= 0 THEN 0 ELSE ((x + d - 1) \div d)

(***************************************************************************)
(* TMDBClient                                                              *)
(***************************************************************************)
minRPS == 1
maxRPS == 30
initRPS == 10
MsPerSecond == 1000

\* The runs of equal responses that take the rate from one end to the other.
RunToFloor == (maxRPS - minRPS + 1) \div 2
RunToCeiling == maxRPS - minRPS

\* How many lookups arrive so soon after a request that rateLimit makes them
\* wait; the lookups after these arrive when no delay is due.
MaxSleeps == 2

\* Beyond this age of lastCallTime the delay of rateLimit is 0 at every rate.
Horizon == MsPerSecond \div minRPS

\* The two lookups of the client and the message prefix of their errors.
Kinds == {"search", "providers"}
FailText(kind) == IF kind = "search" THEN "TMDB search failed: "
                  ELSE "TMDB providers failed: "

\* HTTP statuses a response may carry.
Statuses == {200, 404, 429, 500}
IsOk(status) == status >= 200 /\ status <= 299

\* The lookups that can be inside the client at one time: a batch resolves its
\* elements one after the other, two batches started by two debounce timers
\* run interleaved.
Callers == {"batchA", "batchB"}

NoResult == [error |-> FALSE, text |-> "", status |-> 0]
IdleCaller == [pc |-> "idle", kind |-> "search", remNum |-> 0, rpsAt |-> 0]

\* Mutants of AdaptRps: no floor under the rate; a step of one on a 429; every
\* failed response treated as a 429.
AdaptRps_NoFloor(r, status) ==
    IF status = 429 THEN r - 2
    ELSE IF IsOk(status) THEN (IF r < maxRPS THEN Min(maxRPS, r + 1) ELSE r)
    ELSE r

AdaptRps_StepOne(r, status) ==
    IF status = 429 THEN Max(r - 1, minRPS)
    ELSE IF IsOk(status) THEN (IF r < maxRPS THEN Min(maxRPS, r + 1) ELSE r)
    ELSE r

AdaptRps_AnyFailure(r, status) ==
    IF ~IsOk(status) THEN Max(r - 2, minRPS)
    ELSE (IF r < maxRPS THEN Min(maxRPS, r + 1) ELSE r)

\* adaptiveFetch, lines 26-34: the rate after a response of this status.
AdaptRps(r, status) ==
    IF status = 429 THEN Max(r - 2, minRPS)
    ELSE IF IsOk(status) THEN (IF r < maxRPS THEN Min(maxRPS, r + 1) ELSE r)
    ELSE r

\* searchMovie / getStreamingProviders: `if (!response.ok) throw new Error(...)`.
LookupResult(kind, status) ==
    IF ~IsOk(status)
    THEN [error |-> TRUE, text |-> FailText(kind), status |-> status]
    ELSE [error |-> FALSE, text |-> "", status |-> status]

\* rateLimit, line 90, times rps: delay = DelayNum / rps.
DelayNum(r, since) == Max(0, MsPerSecond - since * r)

\* The request leaves: lastCallTime = Date.now() and fetch is called.
IssueRequest(c, kind, r) ==
    /\ lastGapOk' = (sinceLastCall * r >= MsPerSecond)
    /\ sinceLastCall' = 0
    /\ callers' = [callers EXCEPT ![c] =
                     [pc |-> "fetch", kind |-> kind, remNum |-> 0, rpsAt |-> 0]]

\* A lookup enters adaptiveFetch and runs rateLimit up to its await.
CallStart(c, kind) ==
    /\ callers[c].pc = "idle"
    /\ IF DelayNum(rps, sinceLastCall) > 0
       THEN /\ sleeps < MaxSleeps
            /\ sleeps' = sleeps + 1
            /\ callers' = [callers EXCEPT ![c] =
                             [pc |-> "sleep", kind |-> kind,
                              remNum |-> DelayNum(rps, sinceLastCall),
                              rpsAt |-> rps]]
            /\ UNCHANGED <<sinceLastCall, lastGapOk>>
       ELSE IssueRequest(c, kind, rps) /\ UNCHANGED sleeps
    /\ UNCHANGED <<rps, run429, runOk, lastReturn>>

\* The timer of rateLimit fires, no earlier than the delay asked for.
Wake(c) ==
    /\ callers[c].pc = "sleep"
    /\ callers[c].remNum <= 0
    /\ IssueRequest(c, callers[c].kind, callers[c].rpsAt)
    /\ UNCHANGED <<rps, run429, runOk, lastReturn, sleeps>>

\* The response arrives: adaptiveFetch adapts the rate and returns it to the
\* lookup, which checks response.ok and returns to its caller (or throws).
Respond(c, status) ==
    /\ callers[c].pc = "fetch"
    /\ rps' = AdaptRps(rps, status)
    /\ callers' = [callers EXCEPT ![c] = IdleCaller]
    /\ UNCHANGED <<sinceLastCall, lastGapOk, sleeps>>

\* Respond, with the runs of equal responses counted.
RespondRuns(c, status) ==
    /\ Respond(c, status)
    /\ run429' = IF status = 429 THEN Min(run429 + 1, RunToFloor) ELSE 0
    /\ runOk' = IF IsOk(status) THEN Min(runOk + 1, RunToCeiling) ELSE 0
    /\ UNCHANGED lastReturn

\* Respond, with the outcome of the lookup recorded.
RespondResult(c, status) ==
    /\ Respond(c, status)
    /\ lastReturn' = [kind |-> callers[c].kind, status |-> status,
                      result |-> LookupResult(callers[c].kind, status)]
    /\ UNCHANGED <<run429, runOk>>

\* Time passes: up to the next timer that is due, or, with no timer pending,
\* until lastCallTime is too old to matter.
Sleepers == {c \in Callers : callers[c].pc = "sleep" /\ callers[c].remNum > 0}

TickChoices ==
    IF Sleepers = {} THEN {Horizon}
    ELSE {CeilDiv(callers[c].remNum, callers[c].rpsAt) : c \in Sleepers}

Tick(d) ==
    /\ d > 0
    /\ sinceLastCall < Horizon \/ Sleepers # {}
    /\ \A c \in Sleepers : d <= CeilDiv(callers[c].remNum, callers[c].rpsAt)
    /\ sinceLastCall' = Min(Horizon, sinceLastCall + d)
    /\ callers' = [c \in Callers |->
                     IF callers[c].pc = "sleep"
                     THEN [callers[c] EXCEPT
                             !.remNum = Max(0, callers[c].remNum - d * callers[c].rpsAt)]
                     ELSE callers[c]]
    /\ UNCHANGED <<rps, lastGapOk, lastReturn, run429, runOk, sleeps>>

(***************************************************************************)
(* StreamFilter                                                            *)
(***************************************************************************)
CACHE_LIFETIME_MS == 12 * 60 * 60 * 1000

\* withRetry(fn, retries = 2)
Retries == 2

\* The instants at which the clock is read: an entry written at 0 is one
\* lifetime old at CACHE_LIFETIME_MS.
Times == {0, CACHE_LIFETIME_MS}

\* The posters a page can hold, in document order, and the cache keys their
\* texts can give: two posters may show the same film.
Elems == {"x1", "x2"}
Order == <<"x1", "x2">>
Keys == {"k1", "k2"}
CacheKey(x) == cacheKey[x]

\* toLowerCase on the provider names that occur.
LowerName(p) ==
    IF p \in {"Netflix", "NETFLIX"} THEN "netflix" ELSE IF p = "Hulu" THEN "hulu" ELSE p

\* The providers the user has selected, and line 33: the set of their names
\* in lower case.
selectedProviders == {"Netflix"}
targetProviders == {LowerName(p) : p \in selectedProviders}
ProviderLists == {<<"netflix">>}
MovieIds == {603}

\* An entry that drops the tmdbId.
Entry_NoId(id, providers, t) == [tmdbId |-> 0, providers |-> providers, timestamp |-> t]

\* MovieCacheEntry; tmdbId 0 stands for an entry without tmdbId, NoEntry for
\* undefined / null.
Entry(id, providers, t) == [tmdbId |-> id, providers |-> providers, timestamp |-> t]
NoEntry == [tmdbId |-> 0, providers |-> <<>>, timestamp |-> -1]
EmptyCache == [k \in Keys |-> NoEntry]

\* The runs of processAllMovies that can be in progress at one time.
Slots == Callers

\* History of a setMovieCache between its read and its write: the key and the
\* entry of the latest put of another run whose write has landed meanwhile.
NoWrite == [key |-> "none", entry |-> NoEntry]

\* A run of processAllMovies: infos holds the elements still to classify,
\* uncached and expired the elements still to resolve; queuedFresh remembers
\* which of these were queued while a tier held a fresh entry for their key.
IdleBatch ==
    [pc |-> "idle", initial |-> FALSE, infos |-> <<>>,
     uncached |-> <<>>, expired |-> <<>>, queuedFresh |-> {},
     retries |-> 0, movie |-> 0,
     putEntry |-> NoEntry, putMap |-> EmptyCache, avail |-> FALSE,
     overtook |-> NoWrite, inCatch |-> FALSE, cur |-> "none"]

ToSeq(S) == SelectSeq(Order, LAMBDA x : x \in S)

\* processMutations, lines 186-188: the posters not yet processed.
Unprocessed(elements, processed) == SelectSeq(elements, LAMBDA x : x \notin processed)

\* A step 1 that keeps the elements without a title.
Collect_KeepsUntitled(elements, processed) ==
    SelectSeq(elements, LAMBDA x : x \notin processed)

\* processAllMovies, step 1: the elements not yet processed whose info has a
\* title.
Collect(elements, processed) ==
    SelectSeq(elements, LAMBDA x : x \notin processed /\ titled[x])

NewBatch(elements, processed, initial) ==
    [IdleBatch EXCEPT !.infos = Collect(elements, processed), !.initial = initial]

\* Loops 3 and 4 in the other order: the stale hits first.
Current_StaleFirst(bt) ==
    IF bt.expired # <<>> THEN Head(bt.expired) ELSE Head(bt.uncached)

\* The element steps 3 and 4 are at: the misses first, then the stale hits.
Current(bt) == IF bt.uncached # <<>> THEN Head(bt.uncached) ELSE Head(bt.expired)

\* isCacheExpired with > for >=.
isCacheExpired_Strict(entry, t) == t - entry.timestamp > CACHE_LIFETIME_MS

isCacheExpired(entry, t) == t - entry.timestamp >= CACHE_LIFETIME_MS

\* A test that looks at the first provider only.
HasProvider_First(providers) == providers # <<>> /\ providers[1] \in targetProviders

\* providers.some(p => this.targetProviders.has(p))
HasProvider(providers) == \E n \in 1..Len(providers) : providers[n] \in targetProviders

\* Some tier holds an entry for the key that is younger than the lifetime.
FreshInATier(k, mem, stored, t) ==
    \/ mem[k] # NoEntry /\ t - mem[k].timestamp < CACHE_LIFETIME_MS
    \/ stored[k] # NoEntry /\ t - stored[k].timestamp < CACHE_LIFETIME_MS

\* A classification that sends a stale hit to the miss queue without applying
\* its providers.
ClassifyOne_StaleAsMiss(c, cached, mem) ==
    LET x == Head(c.bt.infos) IN
    IF cached # NoEntry /\ ~isCacheExpired(cached, now)
    THEN [c EXCEPT !.bt.infos = Tail(@),
                   !.mark[x] = ~HasProvider(cached.providers),
                   !.proc = @ \cup {x}]
    ELSE [c EXCEPT !.bt.infos = Tail(@), !.bt.uncached = Append(@, x)]

\* processAllMovies, lines 147-161: the first element of infos is classified
\* from what getMovieCacheEntry returned. c = [bt, mark, proc] is the state the
\* run works on.
ClassifyOne(c, cached, mem) ==
    LET x == Head(c.bt.infos)
        fresh == FreshInATier(CacheKey(x), mem, movieCache, now)
    IN IF cached # NoEntry
       THEN [c EXCEPT !.bt.infos = Tail(@),
                      !.bt.expired = IF isCacheExpired(cached, now)
                                     THEN Append(@, x) ELSE @,
                      !.bt.queuedFresh = IF isCacheExpired(cached, now) /\ fresh
                                         THEN @ \cup {x} ELSE @,
                      !.mark[x] = ~HasProvider(cached.providers),
                      !.proc = @ \cup {x}]
       ELSE [c EXCEPT !.bt.infos = Tail(@),
                      !.bt.uncached = Append(@, x),
                      !.bt.queuedFresh = IF fresh THEN @ \cup {x} ELSE @]

\* Steps 3 and 4 that look at the memory tier again before each miss and take
\* a miss whose key has an entry by now as a hit.
RECURSIVE StartWork_SkipsCached(_)
StartWork_SkipsCached(c) ==
    IF c.bt.uncached = <<>> /\ c.bt.expired = <<>>
    THEN [c EXCEPT !.bt = IdleBatch]
    ELSE IF c.bt.uncached # <<>> /\ memoryCache[CacheKey(Head(c.bt.uncached))] # NoEntry
    THEN LET x == Head(c.bt.uncached) IN
         StartWork_SkipsCached(
             [c EXCEPT !.bt.uncached = Tail(@),
                       !.mark[x] = ~HasProvider(memoryCache[CacheKey(x)].providers),
                       !.proc = @ \cup {x}])
    ELSE [c EXCEPT !.bt.pc = "search", !.bt.retries = Retries, !.bt.movie = 0,
                   !.bt.cur = Current(c.bt)]

\* Steps 3 and 4: the next element of the queues goes to processMovieWithTMDB,
\* whose search request leaves; with the queues done the run ends.
StartWork(c) ==
    IF c.bt.uncached = <<>> /\ c.bt.expired = <<>>
    THEN [c EXCEPT !.bt = IdleBatch]
    ELSE [c EXCEPT !.bt.pc = "search", !.bt.retries = Retries, !.bt.movie = 0,
                   !.bt.cur = Current(c.bt)]

\* getMovieCacheEntry that never takes the memory tier's answer.
MemoryHit_Never(mem, k) == FALSE

\* getMovieCacheEntry, lines 64-65: does the memory tier answer?
MemoryHit(mem, k) == mem[k] # NoEntry

\* Step 2 from the first element of infos on, up to the first await that
\* suspends: memory hits are classified at once, a memory miss waits for the
\* storage read.
RECURSIVE ClassifyFrom(_, _)
ClassifyFrom(c, mem) ==
    IF c.bt.infos = <<>>
    THEN StartWork(c)
    ELSE LET k == CacheKey(Head(c.bt.infos)) IN
         IF MemoryHit(mem, k)
         THEN ClassifyFrom(ClassifyOne(c, mem[k], mem), mem)
         ELSE [c EXCEPT !.bt.pc = "getRead"]

Ctx(b) == [bt |-> batches[b], mark |-> mark, proc |-> processedElements]

\* The run b goes on as c says; observePage installs the observer when the
\* initial run has ended.
Install(b, c, wasInitial) ==
    /\ batches' = [batches EXCEPT ![b] = c.bt]
    /\ mark' = c.mark
    /\ processedElements' = c.proc
    /\ observing' = (observing \/ (wasInitial /\ c.bt.pc = "idle"))

\* observePage: the initial run over the posters of the document.
ObservePage ==
    /\ ~started
    /\ started' = TRUE
    /\ Install("batchA",
               ClassifyFrom([bt |-> NewBatch(ToSeq(dom), processedElements, TRUE),
                             mark |-> mark, proc |-> processedElements], memoryCache),
               TRUE)
    /\ UNCHANGED <<now, dom, cacheKey, debounceTimer, memoryCache, movieCache, lastSet>>

\* A lookup that finds only the entries fetched with the filter's own country
\* code.
Lookup_SameCountry(allCache, key) ==
    IF fetchedUnder[key] = countryCode THEN allCache[key] ELSE NoEntry

\* getMovieCacheEntry, line 70: allCache[key].
Lookup(allCache, key) == allCache[key]

\* getMovieCacheEntry, lines 68-75: the storage read returns.
GetRead(b) ==
    /\ batches[b].pc = "getRead"
    /\ LET k == CacheKey(Head(batches[b].infos))
           entry == Lookup(movieCache, k)
           mem == IF entry # NoEntry THEN [memoryCache EXCEPT ![k] = entry]
                  ELSE memoryCache
       IN /\ memoryCache' = mem
          /\ Install(b, ClassifyFrom(ClassifyOne(Ctx(b), entry, mem), mem),
                     batches[b].initial)
    /\ UNCHANGED <<now, dom, cacheKey, started, debounceTimer, movieCache, lastSet>>

\* A put after which the element is always marked available.
BeginPut_MarksAvailable(b, entry, avail) ==
    /\ memoryCache' = [memoryCache EXCEPT ![CacheKey(Current(batches[b]))] = entry]
    /\ lastSet' = [lastSet EXCEPT ![CacheKey(Current(batches[b]))] = entry]
    /\ batches' = [batches EXCEPT ![b].pc = "putRead", ![b].putEntry = entry,
                                  ![b].avail = TRUE, ![b].retries = 0,
                                  ![b].movie = 0]

\* setMovieCache, lines 79-81: the memory tier is set and the storage read asked for.
BeginPut(b, entry, avail) ==
    /\ memoryCache' = [memoryCache EXCEPT ![CacheKey(Current(batches[b]))] = entry]
    /\ lastSet' = [lastSet EXCEPT ![CacheKey(Current(batches[b]))] = entry]
    /\ batches' = [batches EXCEPT ![b].pc = "putRead", ![b].putEntry = entry,
                                  ![b].avail = avail, ![b].retries = 0,
                                  ![b].movie = 0]

\* A catch block that stamps its entry with 0 instead of Date.now().
CatchPut_Stamp0(b) ==
    LET k == CacheKey(Current(batches[b]))
        entry == Entry(0, <<>>, 0)
    IN /\ memoryCache' = [memoryCache EXCEPT ![k] = entry]
       /\ lastSet' = [lastSet EXCEPT ![k] = entry]
       /\ batches' = [batches EXCEPT ![b].pc = "putRead", ![b].putEntry = entry,
                                     ![b].avail = FALSE, ![b].retries = 0,
                                     ![b].movie = 0, ![b].putMap = EmptyCache,
                                     ![b].overtook = NoWrite, ![b].inCatch = TRUE]

\* A catch block that keeps the provider list the memory tier has for the key.
CatchPut_KeepsProviders(b) ==
    LET k == CacheKey(Current(batches[b]))
        entry == Entry(0, memoryCache[k].providers, now)
    IN /\ memoryCache' = [memoryCache EXCEPT ![k] = entry]
       /\ lastSet' = [lastSet EXCEPT ![k] = entry]
       /\ batches' = [batches EXCEPT ![b].pc = "putRead", ![b].putEntry = entry,
                                     ![b].avail = FALSE, ![b].retries = 0,
                                     ![b].movie = 0, ![b].putMap = EmptyCache,
                                     ![b].overtook = NoWrite, ![b].inCatch = TRUE]

\* processMovieWithTMDB, lines 123-126: the catch block writes an entry without
\* providers and will mark the element unavailable.
CatchPut(b) ==
    LET k == CacheKey(Current(batches[b]))
        entry == Entry(0, <<>>, now)
    IN /\ memoryCache' = [memoryCache EXCEPT ![k] = entry]
       /\ lastSet' = [lastSet EXCEPT ![k] = entry]
       /\ batches' = [batches EXCEPT ![b].pc = "putRead", ![b].putEntry = entry,
                                     ![b].avail = FALSE, ![b].retries = 0,
                                     ![b].movie = 0, ![b].putMap = EmptyCache,
                                     ![b].overtook = NoWrite, ![b].inCatch = TRUE]

\* withRetry: a failed attempt is repeated while retries are left.
Retry(b) ==
    /\ batches[b].retries > 0
    /\ batches' = [batches EXCEPT ![b].retries = @ - 1]
    /\ UNCHANGED <<memoryCache, lastSet>>

\* What withRetry sees of one attempt of searchMovie: it throws (ok = FALSE),
\* returns null (id = 0) or returns the most popular match.
SearchOutcomes ==
    {[ok |-> FALSE, id |-> 0], [ok |-> TRUE, id |-> 0]}
    \cup {[ok |-> TRUE, id |-> m] : m \in MovieIds}

\* processMovieWithTMDB, lines 105-112 and 123-126: the search responds.
SearchRespond(b, out) ==
    /\ batches[b].pc = "search"
    /\ IF ~out.ok
       THEN \/ Retry(b)
            \/ batches[b].retries = 0 /\ CatchPut(b)
       ELSE IF out.id = 0
       THEN BeginPut(b, Entry(0, <<>>, now), FALSE)
       ELSE /\ batches' = [batches EXCEPT ![b].pc = "providers", ![b].movie = out.id,
                                          ![b].retries = Retries]
            /\ UNCHANGED <<memoryCache, lastSet>>
    /\ UNCHANGED <<now, dom, cacheKey, mark, started, observing, debounceTimer,
                   processedElements, movieCache>>

\* What withRetry sees of one attempt of getStreamingProviders.
ProviderOutcomes ==
    {[ok |-> FALSE, providers |-> <<>>]}
    \cup {[ok |-> TRUE, providers |-> l] : l \in ProviderLists}

\* processMovieWithTMDB, lines 113-126: the availability lookup responds.
ProvidersRespond(b, out) ==
    /\ batches[b].pc = "providers"
    /\ IF ~out.ok
       THEN \/ Retry(b)
            \/ batches[b].retries = 0 /\ CatchPut(b)
       ELSE BeginPut(b, Entry(batches[b].movie, out.providers, now),
                     HasProvider(out.providers))
    /\ UNCHANGED <<now, dom, cacheKey, mark, started, observing, debounceTimer,
                   processedElements, movieCache>>

\* A put whose map goes back to the storage as it was read.
Updated_Drops(allCache, k, entry) == allCache

\* setMovieCache, lines 82-83: allCache with the key set.
Updated(allCache, k, entry) == [allCache EXCEPT ![k] = entry]

\* setMovieCache, lines 81-84: the read returns and the whole map goes back.
PutRead(b) ==
    /\ batches[b].pc = "putRead"
    /\ batches' = [batches EXCEPT
                     ![b].pc = "putWrite", ![b].putEntry = NoEntry,
                     ![b].putMap = Updated(movieCache, CacheKey(Current(batches[b])),
                                           batches[b].putEntry)]
    /\ UNCHANGED <<now, dom, cacheKey, mark, started, observing, debounceTimer,
                   processedElements, memoryCache, movieCache, lastSet>>

\* A resolution that leaves the element at the head of its queue.
PutWrite_KeepsHead(b) ==
    /\ batches[b].pc = "putWrite"
    /\ movieCache' = batches[b].putMap
    /\ LET bt == batches[b]
           x == Current(bt)
           c == [bt |-> [bt EXCEPT !.uncached = @,
                                   !.expired = @,
                                   !.queuedFresh = @ \ {x},
                                   !.putMap = EmptyCache, !.avail = FALSE,
                                   !.overtook = NoWrite, !.inCatch = FALSE],
                 mark |-> [mark EXCEPT ![x] = ~bt.avail],
                 proc |-> processedElements \cup {x}]
           d == StartWork(c)
       IN /\ batches' = [o \in Slots |->
                           IF o = b THEN d.bt
                           ELSE IF batches[o].pc = "putWrite"
                           THEN [batches[o] EXCEPT !.overtook =
                                    [key |-> CacheKey(x), entry |-> bt.putMap[CacheKey(x)]]]
                           ELSE batches[o]]
          /\ mark' = d.mark
          /\ processedElements' = d.proc
          /\ observing' = (observing \/ (bt.initial /\ d.bt.pc = "idle"))
    /\ UNCHANGED <<now, dom, cacheKey, started, debounceTimer, memoryCache, lastSet>>

\* setMovieCache, line 84, then updateElement and processedElements.add, then
\* the next element of the queues. The puts of other runs that have read and
\* not yet written note the write.
PutWrite(b) ==
    /\ batches[b].pc = "putWrite"
    /\ movieCache' = batches[b].putMap
    /\ LET bt == batches[b]
           x == Current(bt)
           c == [bt |-> [bt EXCEPT !.uncached = IF @ # <<>> THEN Tail(@) ELSE @,
                                   !.expired = IF bt.uncached # <<>> THEN @ ELSE Tail(@),
                                   !.queuedFresh = @ \ {x},
                                   !.putMap = EmptyCache, !.avail = FALSE,
                                   !.overtook = NoWrite, !.inCatch = FALSE],
                 mark |-> [mark EXCEPT ![x] = ~bt.avail],
                 proc |-> processedElements \cup {x}]
           d == StartWork(c)
       IN /\ batches' = [o \in Slots |->
                           IF o = b THEN d.bt
                           ELSE IF batches[o].pc = "putWrite"
                           THEN [batches[o] EXCEPT !.overtook =
                                    [key |-> CacheKey(x), entry |-> bt.putMap[CacheKey(x)]]]
                           ELSE batches[o]]
          /\ mark' = d.mark
          /\ processedElements' = d.proc
          /\ observing' = (observing \/ (bt.initial /\ d.bt.pc = "idle"))
    /\ UNCHANGED <<now, dom, cacheKey, started, debounceTimer, memoryCache, lastSet>>

\* The page gains posters (or changes otherwise); the observer, if installed,
\* re-arms the debounce timer.
AddNodes(S) ==
    /\ dom' = dom \cup S
    /\ UNCHANGED cacheKey
    /\ debounceTimer' = (debounceTimer \/ observing)
    /\ S # {} \/ observing
    /\ UNCHANGED <<now, mark, started, observing, processedElements, memoryCache,
                   movieCache, batches, lastSet>>

FreeSlots == {b \in Slots : batches[b].pc = "idle"}
FirstFree == IF "batchA" \in FreeSlots THEN "batchA" ELSE "batchB"

\* The debounce timer fires: processMutations.
TimerFire ==
    /\ debounceTimer
    /\ debounceTimer' = FALSE
    /\ LET newElements == Unprocessed(ToSeq(dom), processedElements) IN
       IF Len(newElements) > 0
       THEN /\ FreeSlots # {}
            /\ Install(FirstFree,
                       ClassifyFrom([bt |-> NewBatch(newElements, processedElements, FALSE),
                                     mark |-> mark, proc |-> processedElements],
                                    memoryCache),
                       FALSE)
       ELSE UNCHANGED <<batches, mark, processedElements, observing>>
    /\ UNCHANGED <<now, dom, cacheKey, started, memoryCache, movieCache, lastSet>>

\* Time passes.
Advance(t) ==
    /\ t > now
    /\ now' = t
    /\ UNCHANGED <<dom, cacheKey, mark, started, observing, debounceTimer, processedElements,
                   memoryCache, movieCache, batches, lastSet>>

\* What browser.storage.local holds under movieCache when the page loads: the
\* entries earlier page loads have written, all of them at time 0.
PriorCaches == [Keys -> {NoEntry} \cup {Entry(m, l, 0) : m \in MovieIds, l \in ProviderLists}]

\* Nothing has been observed yet.
NoTally ==
    [searches |-> 0, provs |-> 0, puts |-> 0, last |-> "none", id |-> 0, list |-> <<>>,
     firstSearch |-> "none", firstProv |-> "none"]

InitObservers ==
    /\ tally = [b \in Slots |-> NoTally]
    /\ faults = 0
    /\ negAt = [k \in Keys |-> -1]
    /\ knew = [b \in Slots |-> [k \in Keys |-> -1]]

InitClient ==
    /\ rps = initRPS
    /\ sinceLastCall = Horizon
    /\ callers = [c \in Callers |-> IdleCaller]
    /\ lastGapOk = TRUE
    /\ run429 = 0
    /\ runOk = 0
    /\ lastReturn = [kind |-> "search", status |-> 0, result |-> NoResult]
    /\ sleeps = 0

InitFilter ==
    /\ now = 0
    /\ dom \in SUBSET Elems
    /\ cacheKey \in [Elems -> Keys]
    /\ mark = [x \in Elems |-> FALSE]
    /\ started = FALSE
    /\ observing = FALSE
    /\ debounceTimer = FALSE
    /\ processedElements = {}
    /\ memoryCache = EmptyCache
    /\ movieCache \in PriorCaches
    /\ batches = [b \in Slots |-> IdleBatch]
    /\ lastSet = EmptyCache

\* Every poster of the page has a title.
InitTitled == titled = [x \in Elems |-> TRUE]

\* setTimeout(..., 400)
DebounceMs == 400

\* The clock of the timers moves in steps of DebounceMs / Beats ms.
Beats == 4
Beat == DebounceMs \div Beats

\* No notification has come and no timeout is pending.
InitTimers ==
    /\ timers = {}
    /\ quiet = DebounceMs
    /\ flushes = 0
    /\ burst = 0

(***************************************************************************)
(* Texts: getMovieElementInfo, normalizeTitle, getCacheKey                 *)
(***************************************************************************)
\* Strings are sequences of characters.
Digits == {"0", "1", "2", "3", "4", "5", "6", "7", "8", "9"}
LowerLetters == {"a", "b"}
UpperLetters == {"A", "B"}

\* \s, \d and \w of the regular expressions.
IsSpace(c) == c = " "
IsDigit(c) == c \in Digits
IsWord(c) == c \in LowerLetters \cup UpperLetters \cup Digits \cup {"_"}

Lower(c) == IF c = "A" THEN "a" ELSE IF c = "B" THEN "b" ELSE c
Upper(c) == IF c = "a" THEN "A" ELSE IF c = "b" THEN "B" ELSE c

RECURSIVE TrimStart(_)
TrimStart(t) == IF t # <<>> /\ IsSpace(Head(t)) THEN TrimStart(Tail(t)) ELSE t

RECURSIVE TrimEnd(_)
TrimEnd(t) ==
    IF t # <<>> /\ IsSpace(t[Len(t)]) THEN TrimEnd(SubSeq(t, 1, Len(t) - 1)) ELSE t

\* String.prototype.trim
trim(t) == TrimEnd(TrimStart(t))

\* replace(/\s+/g, ' '): every run of whitespace becomes one space.
RECURSIVE CollapseSpaces(_)
CollapseSpaces(t) ==
    IF t = <<>> THEN <<>>
    ELSE IF IsSpace(Head(t)) THEN <<" ">> \o CollapseSpaces(TrimStart(Tail(t)))
    ELSE <<Head(t)>> \o CollapseSpaces(Tail(t))

\* replace(/[^\w\s]/gi, ''): what is neither a word character nor whitespace
\* goes.
StripNonWord(t) == SelectSeq(t, LAMBDA c : IsWord(c) \/ IsSpace(c))

\* String.prototype.toLowerCase
toLowerCase(t) == IF t = <<>> THEN <<>> ELSE [n \in 1..Len(t) |-> Lower(t[n])]

normalizeTitle(title) == toLowerCase(trim(StripNonWord(CollapseSpaces(title))))

getCacheKey(title, year) == normalizeTitle(title) \o <<"-">> \o year

\* /\((\d{4})\)/ matches at position n of t.
MatchAt(t, n) ==
    /\ n >= 1
    /\ n + 5 <= Len(t)
    /\ t[n] = "("
    /\ \A j \in 1..4 : IsDigit(t[n + j])
    /\ t[n + 5] = ")"

\* title.match(/\((\d{4})\)/): the position of the leftmost match, 0 for null.
YearMatch(t) ==
    IF \E n \in 1..Len(t) : MatchAt(t, n)
    THEN CHOOSE n \in 1..Len(t) : MatchAt(t, n) /\ \A m \in 1..(n - 1) : ~MatchAt(t, m)
    ELSE 0

\* The position of the first occurrence of sub in t, 0 if there is none.
IndexOf(t, sub) ==
    LET Occurs(n) == n + Len(sub) - 1 <= Len(t) /\ SubSeq(t, n, n + Len(sub) - 1) = sub
    IN IF \E n \in 1..Len(t) : Occurs(n)
       THEN CHOOSE n \in 1..Len(t) : Occurs(n) /\ \A m \in 1..(n - 1) : ~Occurs(m)
       ELSE 0

\* title.replace(sub, ''): the first occurrence of sub is taken out.
RemoveFirst(t, sub) ==
    LET n == IndexOf(t, sub) IN
    IF n = 0 THEN t ELSE SubSeq(t, 1, n - 1) \o SubSeq(t, n + Len(sub), Len(t))

NoInfo == [done |-> FALSE, title |-> <<>>, year |-> <<>>, cacheKey |-> <<>>]

\* getMovieElementInfo, lines 93-100, for a title node with this textContent.
getMovieElementInfo(textContent) ==
    LET title == trim(textContent)
        yearMatch == YearMatch(title)
        year == IF yearMatch > 0 THEN SubSeq(title, yearMatch + 1, yearMatch + 4) ELSE <<>>
        stripped == IF yearMatch > 0
                    THEN trim(RemoveFirst(title, SubSeq(title, yearMatch, yearMatch + 5)))
                    ELSE title
    IN [done |-> TRUE, title |-> stripped, year |-> year,
        cacheKey |-> getCacheKey(stripped, year)]

\* The pieces the texts of the posters are made of, and how many of them.
Tokens ==
    {<<"a">>, <<"A">>, <<" ">>, <<"-">>,
     <<"(", "1", "9", "9", "9", ")">>, <<"(", "2", "0", "1", "7", ")">>}
MaxTokens == 5

RECURSIVE TextsOf(_)
TextsOf(n) ==
    IF n = 0 THEN {<<>>}
    ELSE LET shorter == TextsOf(n - 1) IN
         shorter \cup {t \o tok : t \in shorter, tok \in Tokens}
Texts == TextsOf(MaxTokens)

IsPunctuation(c) == ~IsWord(c) /\ ~IsSpace(c)
SwapCase(c) == IF c \in LowerLetters THEN Upper(c) ELSE Lower(c)

\* The texts that differ from t in the case of one letter or by one
\* punctuation character less, and t itself.
Variants(t) ==
    {t}
    \cup {[t EXCEPT ![n] = SwapCase(t[n])] : n \in 1..Len(t)}
    \cup {SubSeq(t, 1, n - 1) \o SubSeq(t, n + 1, Len(t)) :
            n \in {m \in 1..Len(t) : IsPunctuation(t[m])}}

\* Two posters: the text of the second is a variant of the text of the first.
InitText ==
    /\ \E t \in Texts : \E u \in Variants(t) : text = <<t, u>>
    /\ info = [n \in {1, 2} |-> NoInfo]

\* Where texts play no part: one text, not yet looked at.
InitNoText ==
    /\ text = << <<>>, <<>> >>
    /\ info = [n \in {1, 2} |-> NoInfo]

\* getMovieElementInfo is called on poster n.
GetInfo(n) ==
    /\ ~info[n].done
    /\ info' = [info EXCEPT ![n] = getMovieElementInfo(text[n])]
    /\ UNCHANGED text

(***************************************************************************)
(* TMDBClient.searchMovie on a response                                    *)
(***************************************************************************)
\* How many results a page holds and how popular a result can be.
MaxResults == 3
MaxPopularity == 3

\* TMDBMovieSearchResult: the result at position n of the page has id n.
ResultLists ==
    UNION {{[n \in 1..len |-> [id |-> n, popularity |-> p[n]]] :
              p \in [1..len -> 0..MaxPopularity]} : len \in 0..MaxResults}

\* TMDBSearchResponse of page 1: total_results counts the results of all
\* pages, so it exceeds the length of the page only when the page is full.
Bodies ==
    {[total_results |-> Len(l), results |-> l] : l \in ResultLists}
    \cup {[total_results |-> Len(l) + 1, results |-> l] :
            l \in {r \in ResultLists : Len(r) = MaxResults}}

NoBody == [total_results |-> 0, results |-> <<>>]

\* The kinds of thing searchMovie gives back.
NotCalled == [kind |-> "none", id |-> 0, popularity |-> 0]
Null == [kind |-> "null", id |-> 0, popularity |-> 0]
Thrown == [kind |-> "error", id |-> 0, popularity |-> 0]
Movie(r) == [kind |-> "movie", id |-> r.id, popularity |-> r.popularity]

\* A comparator the other way round: a.popularity - b.popularity.
Before_Ascending(a, b) == a.popularity < b.popularity

\* (a, b) => b.popularity - a.popularity is negative: a sorts before b.
Before(a, b) == a.popularity > b.popularity

\* Array.prototype.sort with that comparator: stable, so r goes after the
\* entries that do not sort after it.
RECURSIVE Insert(_, _)
Insert(r, sorted) ==
    IF sorted = <<>> THEN <<r>>
    ELSE IF Before(r, Head(sorted)) THEN <<r>> \o sorted
    ELSE <<Head(sorted)>> \o Insert(r, Tail(sorted))

RECURSIVE Sort(_)
Sort(results) ==
    IF results = <<>> THEN <<>>
    ELSE Insert(results[Len(results)], Sort(SubSeq(results, 1, Len(results) - 1)))

\* searchMovie, lines 50-59.
searchMovie(resp) ==
    IF ~IsOk(resp.status) THEN Thrown
    ELSE IF resp.data.total_results = 0 THEN Null
    ELSE LET sorted == Sort(resp.data.results) IN
         IF sorted = <<>> THEN Null ELSE Movie(sorted[1])

\* A response has arrived: a failure carries no results.
InitSearch ==
    /\ response \in {[status |-> st, data |-> d] : st \in Statuses, d \in Bodies}
    /\ ~IsOk(response.status) => response.data = NoBody
    /\ found = NotCalled

\* Where searchMovie is looked at through withRetry only.
InitNoSearch ==
    /\ response = [status |-> 200, data |-> NoBody]
    /\ found = NotCalled

\* searchMovie returns or throws.
SearchMovie ==
    /\ found = NotCalled
    /\ found' = searchMovie(response)
    /\ UNCHANGED response

(***************************************************************************)
(* The background script: getCountries                                     *)
(***************************************************************************)
\* The region lists TMDB can send.
RegionLists == {<<>>, <<"DE">>, <<"DE", "US">>}

\* What cachedCountries can hold and what a message can be answered with: a
\* list of regions, undefined, or { error: 'Failed to load countries' }.
ListOf(l) == [kind |-> "list", list |-> l]
Undefined == [kind |-> "undefined", list |-> <<>>]
ErrorPayload == [kind |-> "error", list |-> <<>>]
NoAnswer == [kind |-> "none", list |-> <<>>]

\* cachedCountries?.length
HasLength(c) == c.kind = "list" /\ Len(c.list) > 0

\* The pages that can have a getCountries message out at one time.
Askers == {"page1", "page2"}
IdleAsk == [pc |-> "idle", answer |-> NoAnswer, after |-> NoAnswer]

\* let cachedCountries = []
InitCountries ==
    /\ cachedCountries = ListOf(<<>>)
    /\ asks = [r \in Askers |-> IdleAsk]
    /\ got = NoAnswer

\* The listener gets a getCountries message: getCountries answers from
\* cachedCountries if it has a length and reads the API key otherwise. The
\* message remembers the list that had been fetched before it came.
Ask(r) ==
    /\ asks[r].pc = "idle"
    /\ asks' = [asks EXCEPT ![r] =
                  IF HasLength(cachedCountries)
                  THEN [pc |-> "idle", answer |-> cachedCountries, after |-> got]
                  ELSE [pc |-> "storage", answer |-> NoAnswer, after |-> got]]
    /\ UNCHANGED <<cachedCountries, got>>

\* browser.storage.local.get('tmdbApiKey') returns a key or none, or rejects.
KeyReads == {"key", "nokey", "rejected"}
KeyRead(r, read) ==
    /\ asks[r].pc = "storage"
    /\ asks' = [asks EXCEPT
                  ![r].pc = IF read = "key" THEN "fetch" ELSE "idle",
                  ![r].answer = IF read = "key" THEN NoAnswer
                                ELSE IF read = "nokey" THEN ListOf(<<>>)
                                ELSE ErrorPayload]
    /\ UNCHANGED <<cachedCountries, got>>

\* What getAvailableCountries makes of its request: fetch rejects, the body is
\* not JSON, or (await response.json()).results is a list, or undefined when
\* the body is TMDB's error object.
Fetches ==
    {[kind |-> "rejected", results |-> Undefined], [kind |-> "notjson", results |-> Undefined],
     [kind |-> "json", results |-> Undefined]}
    \cup {[kind |-> "json", results |-> ListOf(l)] : l \in RegionLists}

\* getCountries, lines 17-18, and the listener's catch.
Fetched(r, f) ==
    /\ asks[r].pc = "fetch"
    /\ IF f.kind = "json"
       THEN /\ cachedCountries' = f.results
            /\ asks' = [asks EXCEPT ![r].pc = "idle", ![r].answer = f.results]
            /\ got' = IF HasLength(f.results) THEN f.results ELSE got
       ELSE /\ asks' = [asks EXCEPT ![r].pc = "idle", ![r].answer = ErrorPayload]
            /\ UNCHANGED <<cachedCountries, got>>

(***************************************************************************)
(* The content script around the StreamFilter, and the options page        *)
(***************************************************************************)
\* Opacities in tenths: the default 0.4, the 1 of a page that does not fade,
\* and the mark of a value that is not stored or not a number.
DefaultOpacity == 4
FullOpacity == 10
NoOpacity == -1
Opacities == {DefaultOpacity, 7}

ApiKeys == {"", "key1", "key2"}
FadeValues == {"undefined", "true", "false"}

\* The keys of browser.storage.local that saveOptions writes and the content
\* script reads.
NoSettings ==
    [tmdbApiKey |-> "", tmdbReadApiKey |-> "", fadeUnavailable |-> "undefined",
     unavailableOpacity |-> NoOpacity]

\* The changes object of storage.onChanged: the keys whose value is new.
Changed(old, new) == {f \in DOMAIN new : old[f] # new[f]}

\* value !== false
FadeOf(v) == v # "false"

\* typeof value === 'number' ? value : 0.4
OpacityOf(v) == IF v # NoOpacity THEN v ELSE DefaultOpacity

\* fade ? opacity : 1
Shown(fade, opacity) == IF fade THEN opacity ELSE FullOpacity

\* What the callbacks that read both keys set: lines 283-285, 336-340, 372-376.
FromStorage(s) == Shown(FadeOf(s.fadeUnavailable), OpacityOf(s.unavailableOpacity))

\* A storage call a callback of the content script waits for; fade and
\* opacity are what the callback keeps for later.
Read(by, fade, opacity) == [by |-> by, fade |-> fade, opacity |-> opacity]

\* As many calls can wait at one time.
MaxPending == 3

\* The listener of lines 256-277 on a change: the opacity it sets at once and
\* the storage read it asks for.
TopListener(changes, new) ==
    LET fade == IF "fadeUnavailable" \in changes THEN FadeOf(new.fadeUnavailable) ELSE TRUE
        opacity == IF "unavailableOpacity" \in changes
                   THEN OpacityOf(new.unavailableOpacity) ELSE DefaultOpacity
    IN IF "fadeUnavailable" \in changes
       THEN [css |-> Shown(fade, opacity), reads |-> <<>>]
       ELSE IF "unavailableOpacity" \in changes
       THEN [css |-> css, reads |-> <<Read("fade", TRUE, opacity)>>]
       ELSE [css |-> css, reads |-> <<>>]

\* A listener that starts a filter only while the warning is shown.
KeyListens_WhileWarned(changes, new) ==
    /\ page.keyListener
    /\ page.warning
    /\ "tmdbApiKey" \in changes
    /\ new.tmdbApiKey # ""

\* The listener showApiKeyWarning adds, lines 234-235: does it act?
KeyListens(changes, new) ==
    /\ page.keyListener
    /\ "tmdbApiKey" \in changes
    /\ new.tmdbApiKey # ""

\* The listener of the navigation toggle, lines 369-370: does it act?
NavListens(changes) ==
    /\ page.nav
    /\ changes \cap {"fadeUnavailable", "unavailableOpacity"} # {}

\* browser.storage.local.set lands with the settings keys as in new, and the
\* listeners of storage.onChanged run in the order they were added; queue
\* holds the calls that wait, then is what the caller's own callback sets.
StorageSet(new, queue, then) ==
    LET changes == Changed(settings, new)
        top == TopListener(changes, new)
        key == IF KeyListens(changes, new) THEN <<Read("key", TRUE, NoOpacity)>> ELSE <<>>
        nav == IF NavListens(changes) THEN <<Read("toggle", TRUE, NoOpacity)>> ELSE <<>>
    IN /\ settings' = new
       /\ css' = IF then # NoOpacity THEN then ELSE top.css
       /\ pending' = queue \o top.reads \o key \o nav
       /\ Len(pending') <= MaxPending
       /\ page' = [page EXCEPT
                     !.warning = @ /\ ~KeyListens(changes, new),
                     !.notified = @ \/ (/\ page.loaded
                                         /\ changes \cap {"fadeUnavailable",
                                                          "unavailableOpacity"} # {})]
       /\ keyChanges' = IF /\ page.keyListener
                          /\ "tmdbApiKey" \in changes
                          /\ new.tmdbApiKey # ""
                       THEN keyChanges + 1 ELSE keyChanges

\* new StreamFilter(apiKey, ...): its own TMDBClient with its own rps, its own
\* memory tier and its own set of processed elements.
NewFilter(apiKey) ==
    [apiKey |-> apiKey, rps |-> initRPS, memoryCache |-> {}, processedElements |-> {}]

\* As many StreamFilter instances are followed.
MaxFilters == 2

\* The content script has been loaded; its first storage read has not
\* returned.
NoPage ==
    [loaded |-> FALSE, warning |-> FALSE, keyListener |-> FALSE, navWanted |-> FALSE,
     nav |-> FALSE, notified |-> FALSE]

\* Lines 280-296: the first storage read returns.
Initialize ==
    /\ ~page.loaded
    /\ css' = FromStorage(settings)
    /\ IF settings.tmdbApiKey = ""
       THEN /\ page' = [page EXCEPT !.loaded = TRUE, !.warning = TRUE,
                                    !.keyListener = TRUE, !.navWanted = TRUE]
            /\ UNCHANGED filters
       ELSE /\ page' = [page EXCEPT !.loaded = TRUE, !.navWanted = TRUE]
            /\ filters' = Append(filters, NewFilter(settings.tmdbApiKey))
    /\ UNCHANGED <<settings, pending, keyChanges, save>>

\* Lines 297-302: the first storage read rejects.
InitializeFails ==
    /\ ~page.loaded
    /\ css' = DefaultOpacity
    /\ page' = [page EXCEPT !.loaded = TRUE, !.navWanted = TRUE]
    /\ filters' = Append(filters, NewFilter(""))
    /\ UNCHANGED <<settings, pending, keyChanges, save>>

\* addFadeToggleToNav, lines 307-379: tryInsert finds ul.navitems, inserts the
\* toggle, asks the storage for its state and adds its listener.
InsertNav ==
    /\ page.navWanted
    /\ ~page.nav
    /\ Len(pending) < MaxPending
    /\ page' = [page EXCEPT !.nav = TRUE]
    /\ pending' = Append(pending, Read("toggle", TRUE, NoOpacity))
    /\ UNCHANGED <<settings, css, filters, keyChanges, save>>

\* Lines 343-345: the toggle is clicked.
Click ==
    /\ page.nav
    /\ Len(pending) < MaxPending
    /\ pending' = Append(pending, Read("click", TRUE, NoOpacity))
    /\ UNCHANGED <<settings, css, page, filters, keyChanges, save>>

\* Lines 272-274: the read of the first listener returns.
FadeRead ==
    /\ pending # <<>>
    /\ Head(pending).by = "fade"
    /\ css' = IF settings.fadeUnavailable = "false" THEN FullOpacity
              ELSE Head(pending).opacity
    /\ pending' = Tail(pending)
    /\ UNCHANGED <<settings, page, filters, keyChanges, save>>

\* Lines 335-341 and 371-377: a read of the toggle returns.
ToggleRead ==
    /\ pending # <<>>
    /\ Head(pending).by = "toggle"
    /\ css' = FromStorage(settings)
    /\ pending' = Tail(pending)
    /\ UNCHANGED <<settings, page, filters, keyChanges, save>>

\* Lines 345-349: the read of the click handler returns and it asks the
\* storage to set fadeUnavailable to the opposite.
ClickRead ==
    /\ pending # <<>>
    /\ Head(pending).by = "click"
    /\ pending' = Append(Tail(pending),
                         Read("clickSet", ~FadeOf(settings.fadeUnavailable),
                              OpacityOf(settings.unavailableOpacity)))
    /\ UNCHANGED <<settings, css, page, filters, keyChanges, save>>

\* Lines 349-351: the set of the click handler lands; the listeners run and
\* the handler sets the opacity.
ClickSet ==
    /\ pending # <<>>
    /\ Head(pending).by = "clickSet"
    /\ StorageSet([settings EXCEPT !.fadeUnavailable =
                       IF Head(pending).fade THEN "true" ELSE "false"],
                  Tail(pending),
                  Shown(Head(pending).fade, Head(pending).opacity))
    /\ UNCHANGED <<filters, save>>

\* Lines 242-246: the read of the warning's listener returns and a
\* StreamFilter is started with the stored key.
StartFilter ==
    /\ pending # <<>>
    /\ Head(pending).by = "key"
    /\ Len(filters) < MaxFilters
    /\ filters' = Append(filters, NewFilter(settings.tmdbApiKey))
    /\ pending' = Tail(pending)
    /\ UNCHANGED <<settings, css, page, keyChanges, save>>

\* rps after n responses of one status.
RECURSIVE Adapted(_, _, _)
Adapted(r, status, n) == IF n = 0 THEN r ELSE Adapted(AdaptRps(r, status), status, n - 1)

\* observePage of filter i comes to poster x. An entry of its memory tier or
\* of the storage settles the poster without a request; otherwise the filter's
\* client is asked: a search and a provider lookup that succeed, or a search
\* that fails with all its retries, and the entry goes to both tiers.
FilterProcess(i, x, status) ==
    LET f == filters[i]
        k == CacheKey(x)
        hit == k \in f.memoryCache \/ movieCache[k] # NoEntry
        entry == IF IsOk(status) THEN Entry(603, <<"netflix">>, now)
                 ELSE Entry(0, <<>>, now)
    IN /\ x \notin f.processedElements
       /\ hit => status = 200
       /\ filters' = [filters EXCEPT
                        ![i].processedElements = @ \cup {x},
                        ![i].memoryCache = @ \cup {k},
                        ![i].rps = IF hit THEN @
                                   ELSE IF IsOk(status) THEN Adapted(@, status, 2)
                                   ELSE Adapted(@, status, Retries + 1)]
       /\ movieCache' = IF hit THEN movieCache ELSE Updated(movieCache, k, entry)
       /\ mark' = [mark EXCEPT ![x] = IF hit THEN ~HasProvider(movieCache[k].providers)
                                      ELSE ~HasProvider(entry.providers)]
       /\ UNCHANGED <<settings, css, page, pending, keyChanges, save>>

\* saveOptions, lines 5-29: the form is read and storage.local.set is called.
SaveOptions(form) ==
    /\ save.pc = "idle"
    /\ save' = [pc |-> "set", form |-> form]
    /\ UNCHANGED <<settings, css, page, pending, filters, keyChanges>>

\* A save that puts the settings in the place of everything stored.
SaveLands_WholeStore ==
    /\ save.pc = "set"
    /\ StorageSet(save.form, pending, NoOpacity)
    /\ movieCache' = EmptyCache
    /\ save' = [save EXCEPT !.pc = IF save.form.tmdbApiKey # "" /\ save.form.tmdbReadApiKey # ""
                                  THEN "countries" ELSE "idle"]
    /\ UNCHANGED filters

\* saveOptions, lines 30-36: storage.local.set(settings) lands. It sets the
\* keys of the settings object and no other key of the storage; with both API
\* keys set loadCountries follows.
SaveLands ==
    /\ save.pc = "set"
    /\ StorageSet(save.form, pending, NoOpacity)
    /\ movieCache' = movieCache
    /\ save' = [save EXCEPT !.pc = IF save.form.tmdbApiKey # "" /\ save.form.tmdbReadApiKey # ""
                                  THEN "countries" ELSE "idle"]
    /\ UNCHANGED filters

\* saveOptions, lines 37-42: storage.local.set rejects.
SaveFails ==
    /\ save.pc = "set"
    /\ save' = [save EXCEPT !.pc = "idle"]
    /\ UNCHANGED <<settings, css, page, pending, filters, keyChanges>>

\* saveOptions, lines 33-35 and 40-42: loadCountries ends and the button is
\* enabled again.
LoadCountries ==
    /\ save.pc = "countries"
    /\ save' = [save EXCEPT !.pc = "idle"]
    /\ UNCHANGED <<settings, css, page, pending, filters, keyChanges>>

\* No content script and no options page are followed.
InitNoScript ==
    /\ settings = NoSettings
    /\ css = FullOpacity
    /\ page = NoPage
    /\ pending = <<>>
    /\ filters = <<>>
    /\ keyChanges = 0
    /\ save = [pc |-> "idle", form |-> NoSettings]
    /\ overlap = {}

\* The country codes a StreamFilter can be constructed with.
Countries == {"DE", "US"}

\* One country is used throughout.
InitOrigin ==
    /\ countryCode = "US"
    /\ fetchedUnder = [k \in Keys |-> "US"]

\* Outside the pipeline nothing has happened.
InitSide == InitNoText /\ InitNoSearch /\ InitCountries /\ InitNoScript /\ InitOrigin

InitAux == InitTitled /\ InitTimers /\ InitSide

Init == InitClient /\ InitFilter /\ InitObservers /\ InitAux

NextFilter ==
    \/ ObservePage
    \/ \E b \in Slots : GetRead(b)
    \/ \E b \in Slots, out \in SearchOutcomes : SearchRespond(b, out)
    \/ \E b \in Slots, out \in ProviderOutcomes : ProvidersRespond(b, out)
    \/ \E b \in Slots : PutRead(b)
    \/ \E b \in Slots : PutWrite(b)
    \/ \E S \in SUBSET (Elems \ dom) : AddNodes(S)
    \/ TimerFire
    \/ \E t \in Times : Advance(t)

Next == NextFilter /\ UNCHANGED rateVars /\ UNCHANGED obsVars /\ UNCHANGED auxVars

Spec == Init /\ [][Next]_vars

\* The instants of a page whose clock is read a millisecond before an entry
\* written at 0 is one lifetime old, and when it is.
FineTimes == {0, CACHE_LIFETIME_MS - 1, CACHE_LIFETIME_MS}

\* What the step adds to the tally of each run: outcome is what the response
\* of this step was ("match", "empty", "failed", "listed" or "none"), id and
\* list what it carried.
TallyStep(outcome, id, list) ==
    tally' = [b \in Slots |->
        LET old == batches[b]
            new == batches'[b]
            t == [tally[b] EXCEPT
                    !.last = IF old.pc \in {"search", "providers"} THEN outcome ELSE @,
                    !.firstSearch = IF old.pc = "search" /\ @ = "none" THEN outcome ELSE @,
                    !.firstProv = IF old.pc = "providers" /\ @ = "none" THEN outcome ELSE @]
        IN IF new = old THEN tally[b]
           ELSE IF new.pc = "idle" THEN NoTally
           ELSE IF new.pc = "search" /\ old.pc # "search"
                THEN [NoTally EXCEPT !.searches = 1]
           ELSE IF new.pc = "search"
                THEN [t EXCEPT !.searches = @ + 1]
           ELSE IF new.pc = "providers" /\ old.pc = "search"
                THEN [t EXCEPT !.provs = 1, !.id = id]
           ELSE IF new.pc = "providers"
                THEN [t EXCEPT !.provs = @ + 1]
           ELSE IF new.pc = "putRead" /\ old.pc \in {"search", "providers"}
                THEN [t EXCEPT !.puts = @ + 1, !.list = list]
           ELSE IF new.pc = "putRead" /\ old.pc \in {"putRead", "putWrite"}
                THEN [t EXCEPT !.puts = @ + 1]
           ELSE tally[b]]

SearchOutcome(out) == IF ~out.ok THEN "failed" ELSE IF out.id = 0 THEN "empty" ELSE "match"
ProviderOutcome(out) == IF out.ok THEN "listed" ELSE "failed"

\* The page as loaded: observePage and its initial run, nothing added later.
NextInitial ==
    /\ \/ ObservePage /\ TallyStep("none", 0, <<>>)
       \/ \E b \in Slots : GetRead(b) /\ TallyStep("none", 0, <<>>)
       \/ \E b \in Slots, out \in SearchOutcomes :
             SearchRespond(b, out) /\ TallyStep(SearchOutcome(out), out.id, <<>>)
       \/ \E b \in Slots, out \in ProviderOutcomes :
             ProvidersRespond(b, out) /\ TallyStep(ProviderOutcome(out), 0, out.providers)
       \/ \E b \in Slots : PutRead(b) /\ TallyStep("none", 0, <<>>)
       \/ \E b \in Slots : PutWrite(b) /\ TallyStep("none", 0, <<>>)
       \/ \E t \in FineTimes : Advance(t) /\ TallyStep("none", 0, <<>>)
    /\ UNCHANGED rateVars
    /\ UNCHANGED <<faults, negAt, knew>>
    /\ UNCHANGED auxVars

SpecInitial == Init /\ [][NextInitial]_vars

\* Run b is started in this step by observePage or by processMutations.
Starts(b) ==
    \/ ~started /\ started' /\ b = "batchA"
    \/ /\ debounceTimer /\ ~debounceTimer'
       /\ b = FirstFree
       /\ Unprocessed(ToSeq(dom), processedElements) # <<>>

\* What the step adds to the record of the entries written after exhausted
\* retries: the write of a catch block's put lands, or a run starts and finds
\* such entries written less than a lifetime ago.
NegativeStep ==
    /\ negAt' = [k \in Keys |->
          IF \E b \in Slots : /\ batches[b].pc = "putWrite"
                               /\ batches'[b].pc # "putWrite"
                               /\ batches[b].inCatch
                               /\ CacheKey(batches[b].cur) = k
          THEN movieCache'[k].timestamp
          ELSE negAt[k]]
    /\ knew' = [b \in Slots |->
          IF batches'[b].pc = "idle" THEN [k \in Keys |-> -1]
          ELSE IF Starts(b)
          THEN [k \in Keys |-> IF negAt[k] >= 0 /\ now - negAt[k] < CACHE_LIFETIME_MS
                               THEN negAt[k] ELSE -1]
          ELSE knew[b]]

\* The page with the entries after exhausted retries on record.
NextNegative ==
    /\ NextFilter
    /\ NegativeStep
    /\ UNCHANGED rateVars
    /\ UNCHANGED <<tally, faults>>
    /\ UNCHANGED auxVars

SpecNegative == Init /\ [][NextNegative]_vars

\* How many storage calls are rejected.
MaxFaults == 2

\* processAllMovies rejects: the run ends where it is. observePage, awaiting
\* the initial run, rejects with it and does not install the observer.
Abandon(b) ==
    /\ batches' = [batches EXCEPT ![b] = IdleBatch]
    /\ UNCHANGED <<mark, processedElements, observing, memoryCache, lastSet>>

\* getMovieCacheEntry, line 68: browser.storage.local.get rejects. Nothing
\* catches the rejection in getMovieCacheEntry or in processAllMovies.
GetReadFails(b) ==
    /\ batches[b].pc = "getRead"
    /\ faults < MaxFaults
    /\ faults' = faults + 1
    /\ Abandon(b)
    /\ UNCHANGED <<now, dom, cacheKey, started, debounceTimer, movieCache>>

\* A storage call of setMovieCache rejects: inside the try block of
\* processMovieWithTMDB the catch block takes over and puts its own entry;
\* inside the catch block the rejection leaves processMovieWithTMDB and
\* processAllMovies.
PutFails(b) ==
    /\ faults < MaxFaults
    /\ faults' = faults + 1
    /\ IF batches[b].inCatch
       THEN Abandon(b)
       ELSE CatchPut(b) /\ UNCHANGED <<mark, processedElements, observing>>
    /\ UNCHANGED <<now, dom, cacheKey, started, debounceTimer, movieCache>>

\* setMovieCache, line 81: browser.storage.local.get rejects.
PutReadFails(b) == batches[b].pc = "putRead" /\ PutFails(b)

\* setMovieCache, line 84: browser.storage.local.set rejects.
PutWriteFails(b) == batches[b].pc = "putWrite" /\ PutFails(b)

\* The page as loaded, with a storage that can reject calls.
NextStorage ==
    /\ \/ ObservePage /\ UNCHANGED faults
       \/ \E b \in Slots : GetRead(b) /\ UNCHANGED faults
       \/ \E b \in Slots, out \in SearchOutcomes : SearchRespond(b, out) /\ UNCHANGED faults
       \/ \E b \in Slots, out \in ProviderOutcomes :
             ProvidersRespond(b, out) /\ UNCHANGED faults
       \/ \E b \in Slots : PutRead(b) /\ UNCHANGED faults
       \/ \E b \in Slots : PutWrite(b) /\ UNCHANGED faults
       \/ \E b \in Slots : GetReadFails(b)
       \/ \E b \in Slots : PutReadFails(b)
       \/ \E b \in Slots : PutWriteFails(b)
    /\ UNCHANGED rateVars
    /\ UNCHANGED <<tally, negAt, knew>>
    /\ UNCHANGED auxVars

SpecStorage == Init /\ [][NextStorage]_vars

\* A page on which some poster has no title node, or one whose text is
\* empty once the year is taken off it.
InitPage ==
    /\ InitClient
    /\ InitFilter
    /\ InitObservers
    /\ InitTimers
    /\ InitSide
    /\ titled \in [Elems -> BOOLEAN] \ {[x \in Elems |-> TRUE]}

SpecPage == InitPage /\ [][Next]_vars

\* A page that is loaded one lifetime after the entries of the storage were
\* written; the clock does not move while the page is processed. The key of
\* the first poster is the one called k1.
InitLive ==
    /\ InitClient
    /\ InitObservers
    /\ now = CACHE_LIFETIME_MS
    /\ dom \in SUBSET Elems
    /\ cacheKey \in {f \in [Elems -> Keys] : f["x1"] = "k1"}
    /\ mark = [x \in Elems |-> FALSE]
    /\ started = FALSE
    /\ observing = FALSE
    /\ debounceTimer = FALSE
    /\ processedElements = {}
    /\ memoryCache = EmptyCache
    /\ movieCache \in PriorCaches
    /\ batches = [b \in Slots |-> IdleBatch]
    /\ lastSet = EmptyCache
    /\ titled \in [Elems -> BOOLEAN]
    /\ InitTimers
    /\ InitSide

\* A step of the pipeline that leaves the rest alone.
Alone(A) == A /\ UNCHANGED rateVars /\ UNCHANGED obsVars /\ UNCHANGED auxVars

NextLive ==
    \/ Alone(ObservePage)
    \/ \E b \in Slots : Alone(GetRead(b))
    \/ \E b \in Slots, out \in SearchOutcomes : Alone(SearchRespond(b, out))
    \/ \E b \in Slots, out \in ProviderOutcomes : Alone(ProvidersRespond(b, out))
    \/ \E b \in Slots : Alone(PutRead(b))
    \/ \E b \in Slots : Alone(PutWrite(b))
    \/ \E S \in SUBSET (Elems \ dom) : Alone(AddNodes(S))
    \/ Alone(TimerFire)

\* Every storage call returns and every request is answered, with a result or
\* with a failure.
Answered ==
    \A b \in Slots :
        /\ WF_vars(Alone(GetRead(b)))
        /\ WF_vars(\E out \in SearchOutcomes : Alone(SearchRespond(b, out)))
        /\ WF_vars(\E out \in ProviderOutcomes : Alone(ProvidersRespond(b, out)))
        /\ WF_vars(Alone(PutRead(b)))
        /\ WF_vars(Alone(PutWrite(b)))

SpecLive == InitLive /\ [][NextLive]_vars /\ Answered

\* The flatrate provider names of a country as TMDB sends them, and
\* getStreamingProviders, line 85: their names in lower case.
Flatrates == {<<>>, <<"Hulu">>, <<"Hulu", "NETFLIX">>, <<"Netflix">>}
getStreamingProviders(flatrate) ==
    IF flatrate = <<>> THEN <<>> ELSE [n \in 1..Len(flatrate) |-> LowerName(flatrate[n])]

\* What withRetry sees of one attempt of getStreamingProviders when a film
\* can be on any of these lists.
FlatrateOutcomes ==
    {[ok |-> FALSE, providers |-> <<>>]}
    \cup {[ok |-> TRUE, providers |-> getStreamingProviders(l)] : l \in Flatrates}

\* The page as loaded, the storage holding what earlier page loads have
\* written from such lists. The key of the first poster is the one called k1.
InitApply ==
    /\ InitClient
    /\ InitObservers
    /\ InitAux
    /\ now = 0
    /\ dom \in SUBSET Elems
    /\ cacheKey \in {f \in [Elems -> Keys] : f["x1"] = "k1"}
    /\ mark = [x \in Elems |-> FALSE]
    /\ started = FALSE
    /\ observing = FALSE
    /\ debounceTimer = FALSE
    /\ processedElements = {}
    /\ memoryCache = EmptyCache
    /\ movieCache \in [Keys -> {NoEntry} \cup {Entry(m, getStreamingProviders(l), 0) :
                                                 m \in MovieIds, l \in Flatrates}]
    /\ batches = [b \in Slots |-> IdleBatch]
    /\ lastSet = EmptyCache

NextApply ==
    \/ Alone(ObservePage)
    \/ \E b \in Slots : Alone(GetRead(b))
    \/ \E b \in Slots, out \in SearchOutcomes : Alone(SearchRespond(b, out))
    \/ \E b \in Slots, out \in FlatrateOutcomes : Alone(ProvidersRespond(b, out))
    \/ \E b \in Slots : Alone(PutRead(b))
    \/ \E b \in Slots : Alone(PutWrite(b))
    \/ \E t \in Times : Alone(Advance(t))

SpecApply == InitApply /\ [][NextApply]_vars

\* The page whose mutations come so far apart that processMutations finds no
\* run of processAllMovies in progress.
NextSerial ==
    \/ Alone(ObservePage)
    \/ \E b \in Slots : Alone(GetRead(b))
    \/ \E b \in Slots, out \in SearchOutcomes : Alone(SearchRespond(b, out))
    \/ \E b \in Slots, out \in ProviderOutcomes : Alone(ProvidersRespond(b, out))
    \/ \E b \in Slots : Alone(PutRead(b))
    \/ \E b \in Slots : Alone(PutWrite(b))
    \/ \E S \in SUBSET (Elems \ dom) : Alone(AddNodes(S))
    \/ FreeSlots = Slots /\ Alone(TimerFire)
    \/ \E t \in Times : Alone(Advance(t))

SpecSerial == Init /\ [][NextSerial]_vars

\* Everything but the content script's own state and the options page, on
\* a page without posters and with an empty movieCache.
InitElsewhere ==
    /\ InitClient
    /\ InitFilter
    /\ InitObservers
    /\ InitTitled
    /\ InitTimers
    /\ InitNoText
    /\ InitNoSearch
    /\ InitCountries
    /\ InitOrigin
    /\ dom = {}
    /\ cacheKey = [x \in Elems |-> "k1"]
    /\ movieCache = EmptyCache

\* The content script is loaded on a page whose storage holds both API keys
\* and any fading settings; nothing waits and the options page is at rest.
InitFade ==
    /\ InitElsewhere
    /\ settings \in {[tmdbApiKey |-> "key1", tmdbReadApiKey |-> "read",
                      fadeUnavailable |-> f, unavailableOpacity |-> o] :
                        f \in FadeValues, o \in Opacities \cup {NoOpacity}}
    /\ css = FullOpacity
    /\ page = NoPage
    /\ pending = <<>>
    /\ filters = <<>>
    /\ keyChanges = 0
    /\ save = [pc |-> "idle", form |-> NoSettings]
    /\ overlap = {}

\* What the form of the options page can hold when the fading is set.
FadeForms ==
    {[tmdbApiKey |-> "key1", tmdbReadApiKey |-> "read",
      fadeUnavailable |-> f, unavailableOpacity |-> o] :
        f \in {"true", "false"}, o \in Opacities}

\* What the script and the options page leave alone.
Apart(A) ==
    /\ A
    /\ UNCHANGED <<rateVars, pipeVars, obsVars, titled, timerVars, textVars, searchVars,
                   countryVars, originVars, overlap>>

\* The content script, its toggle and the options page; the posters are left
\* aside.
NextFade ==
    \/ Apart(Initialize)
    \/ Apart(InitializeFails)
    \/ Apart(InsertNav)
    \/ Apart(Click)
    \/ Apart(FadeRead)
    \/ Apart(ToggleRead)
    \/ Apart(ClickRead)
    \/ Apart(ClickSet)
    \/ \E form \in FadeForms : Apart(SaveOptions(form))
    \/ Apart(SaveLands)
    \/ Apart(SaveFails)
    \/ Apart(LoadCountries)

SpecFade == InitFade /\ [][NextFade]_vars

\* The content script is loaded on a page with two posters of one film; the
\* storage holds any API key or none, the settings of the fading are those
\* of the form. Nothing waits and the options page is at rest.
InitKey ==
    /\ InitClient
    /\ InitFilter
    /\ InitObservers
    /\ InitTitled
    /\ InitTimers
    /\ InitNoText
    /\ InitNoSearch
    /\ InitCountries
    /\ InitOrigin
    /\ dom = Elems
    /\ cacheKey = [x \in Elems |-> "k1"]
    /\ movieCache = EmptyCache
    /\ settings \in {[tmdbApiKey |-> a, tmdbReadApiKey |-> "read",
                      fadeUnavailable |-> "true", unavailableOpacity |-> DefaultOpacity] :
                        a \in ApiKeys}
    /\ css = FullOpacity
    /\ page = NoPage
    /\ pending = <<>>
    /\ filters = <<>>
    /\ keyChanges = 0
    /\ save = [pc |-> "idle", form |-> NoSettings]
    /\ overlap = {}

\* What the form of the options page can hold when the API key is set.
KeyForms ==
    {[tmdbApiKey |-> a, tmdbReadApiKey |-> "read",
      fadeUnavailable |-> "true", unavailableOpacity |-> DefaultOpacity] : a \in ApiKeys}

\* The statuses the requests of the filters are answered with.
KeyStatuses == {200, 429}

\* A step of a filter instance: of the pipeline's state it changes the
\* persisted map and the marks.
Filtering(A) ==
    /\ A
    /\ UNCHANGED <<now, dom, cacheKey, started, observing, debounceTimer, processedElements,
                   memoryCache, batches, lastSet>>
    /\ UNCHANGED <<rateVars, obsVars, titled, timerVars, textVars, searchVars,
                   countryVars, originVars, overlap>>

\* The content script, the filters it starts and the options page; the
\* toggle is left aside.
NextKey ==
    \/ Apart(Initialize)
    \/ Apart(InitializeFails)
    \/ \E form \in KeyForms : Apart(SaveOptions(form))
    \/ Apart(SaveLands)
    \/ Apart(SaveFails)
    \/ Apart(LoadCountries)
    \/ Apart(StartFilter)
    \/ \E i \in 1..Len(filters), x \in Elems, status \in KeyStatuses :
          Filtering(FilterProcess(i, x, status))

SpecKey == InitKey /\ [][NextKey]_vars

\* The page as loaded, its script initialized with the stored API key; the
\* options page is open and at rest. The key of the first poster is the one
\* called k1.
InitSave ==
    /\ InitClient
    /\ InitObservers
    /\ InitTitled
    /\ InitTimers
    /\ InitNoText
    /\ InitNoSearch
    /\ InitCountries
    /\ InitOrigin
    /\ now = 0
    /\ dom \in SUBSET Elems
    /\ cacheKey \in {f \in [Elems -> Keys] : f["x1"] = "k1"}
    /\ mark = [x \in Elems |-> FALSE]
    /\ started = FALSE
    /\ observing = FALSE
    /\ debounceTimer = FALSE
    /\ processedElements = {}
    /\ memoryCache = EmptyCache
    /\ movieCache \in PriorCaches
    /\ batches = [b \in Slots |-> IdleBatch]
    /\ lastSet = EmptyCache
    /\ settings = [tmdbApiKey |-> "key1", tmdbReadApiKey |-> "read",
                   fadeUnavailable |-> "true", unavailableOpacity |-> DefaultOpacity]
    /\ css = DefaultOpacity
    /\ page = [NoPage EXCEPT !.loaded = TRUE, !.navWanted = TRUE]
    /\ pending = <<>>
    /\ filters = <<>>
    /\ keyChanges = 0
    /\ save = [pc |-> "idle", form |-> NoSettings]
    /\ overlap = {}

\* What the form of the options page can hold when the opacity is set.
SaveForms ==
    {[tmdbApiKey |-> "key1", tmdbReadApiKey |-> "read",
      fadeUnavailable |-> "true", unavailableOpacity |-> o] : o \in Opacities}

\* What the step adds to the record of the puts that meet a save: a put in
\* flight while storage.local.set of saveOptions is on its way.
OverlapStep ==
    overlap' = {b \in Slots :
                   /\ batches'[b].pc \in {"putRead", "putWrite"}
                   /\ (b \in overlap \/ save.pc = "set" \/ save'.pc = "set")}

\* A step of the pipeline next to the options page.
Saving(A) ==
    /\ A
    /\ UNCHANGED <<settings, css, page, pending, filters, keyChanges, save>>
    /\ UNCHANGED <<rateVars, obsVars, titled, timerVars, textVars, searchVars,
                   countryVars, originVars>>
    /\ OverlapStep

\* A step of the options page next to the pipeline: of the pipeline's state
\* it can touch the storage only.
Beside(A) ==
    /\ A
    /\ UNCHANGED <<now, dom, cacheKey, mark, started, observing, debounceTimer,
                   processedElements, memoryCache, batches, lastSet>>
    /\ UNCHANGED <<rateVars, obsVars, titled, timerVars, textVars, searchVars,
                   countryVars, originVars>>
    /\ OverlapStep

\* The initial run of the page while settings are saved on the options page.
NextSave ==
    \/ Saving(ObservePage)
    \/ \E b \in Slots : Saving(GetRead(b))
    \/ \E b \in Slots, out \in SearchOutcomes : Saving(SearchRespond(b, out))
    \/ \E b \in Slots, out \in ProviderOutcomes : Saving(ProvidersRespond(b, out))
    \/ \E b \in Slots : Saving(PutRead(b))
    \/ \E b \in Slots : Saving(PutWrite(b))
    \/ \E form \in SaveForms : Beside(SaveOptions(form)) /\ UNCHANGED movieCache
    \/ Beside(SaveLands)
    \/ Beside(SaveFails) /\ UNCHANGED movieCache
    \/ Beside(LoadCountries) /\ UNCHANGED movieCache

SpecSave == InitSave /\ [][NextSave]_vars

\* data.results of the /watch/providers response for the film: the flatrate
\* provider names per country.
Results == [DE |-> <<"Hulu">>, US |-> <<"Netflix">>]

\* getStreamingProviders, lines 83-85, for the filter's country code.
CountryProviders(code) ==
    IF code \in DOMAIN Results THEN getStreamingProviders(Results[code]) ELSE <<>>

\* What withRetry sees of one attempt of getStreamingProviders by a filter
\* constructed with the country code.
CountryOutcomes(code) ==
    {[ok |-> FALSE, providers |-> <<>>], [ok |-> TRUE, providers |-> CountryProviders(code)]}

\* The page as loaded by a filter with any country code; the storage holds
\* what filters with any country code have fetched on earlier page loads.
\* The key of the first poster is the one called k1.
InitCountry ==
    /\ InitClient
    /\ InitObservers
    /\ InitTitled
    /\ InitTimers
    /\ InitNoText
    /\ InitNoSearch
    /\ InitCountries
    /\ InitNoScript
    /\ countryCode \in Countries
    /\ fetchedUnder \in [Keys -> Countries]
    /\ now = 0
    /\ dom \in SUBSET Elems
    /\ cacheKey \in {f \in [Elems -> Keys] : f["x1"] = "k1"}
    /\ mark = [x \in Elems |-> FALSE]
    /\ started = FALSE
    /\ observing = FALSE
    /\ debounceTimer = FALSE
    /\ processedElements = {}
    /\ memoryCache = EmptyCache
    /\ \E have \in SUBSET Keys :
          movieCache = [k \in Keys |->
                          IF k \in have
                          THEN Entry(603, CountryProviders(fetchedUnder[k]), 0)
                          ELSE NoEntry]
    /\ batches = [b \in Slots |-> IdleBatch]
    /\ lastSet = EmptyCache

\* What the step adds to the record of the country codes: the key whose put
\* lands has been fetched with the filter's.
OriginStep ==
    /\ fetchedUnder' = [k \in Keys |->
          IF \E b \in Slots : /\ batches[b].pc = "putWrite"
                               /\ batches'[b].pc # "putWrite"
                               /\ CacheKey(batches[b].cur) = k
          THEN countryCode ELSE fetchedUnder[k]]
    /\ UNCHANGED countryCode

\* A step of the pipeline of a filter with a country code.
Abroad(A) ==
    /\ A
    /\ UNCHANGED <<rateVars, obsVars, titled, timerVars, textVars, searchVars,
                   countryVars, scriptVars>>
    /\ OriginStep

NextCountry ==
    \/ Abroad(ObservePage)
    \/ \E b \in Slots : Abroad(GetRead(b))
    \/ \E b \in Slots, out \in SearchOutcomes : Abroad(SearchRespond(b, out))
    \/ \E b \in Slots, out \in CountryOutcomes(countryCode) : Abroad(ProvidersRespond(b, out))
    \/ \E b \in Slots : Abroad(PutRead(b))
    \/ \E b \in Slots : Abroad(PutWrite(b))
    \/ \E t \in Times : Abroad(Advance(t))

SpecCountry == InitCountry /\ [][NextCountry]_vars

\* The steps of the client other than the arrival of a response.
ClientStep ==
    \/ \E c \in Callers, k \in Kinds : CallStart(c, k)
    \/ \E c \in Callers : Wake(c)
    \/ \E d \in TickChoices : Tick(d)

NextRate ==
    /\ ClientStep \/ \E c \in Callers, s \in Statuses : RespondRuns(c, s)
    /\ UNCHANGED pipeVars
    /\ UNCHANGED obsVars
    /\ UNCHANGED auxVars

NextLookup ==
    /\ ClientStep \/ \E c \in Callers, s \in Statuses : RespondResult(c, s)
    /\ UNCHANGED pipeVars
    /\ UNCHANGED obsVars
    /\ UNCHANGED auxVars

\* The client of a StreamFilter whose page has no posters and whose storage
\* is empty.
InitQuietPage ==
    /\ InitClient
    /\ InitFilter
    /\ InitObservers
    /\ InitAux
    /\ dom = {}
    /\ cacheKey = [x \in Elems |-> "k1"]
    /\ movieCache = EmptyCache

SpecRate == InitQuietPage /\ [][NextRate]_vars
SpecLookup == InitQuietPage /\ [][NextLookup]_vars

\* The timeout this.debounceTimer names: the one set last.
Latest(ts) == {t \in ts : \A u \in ts : u <= t}

\* An observer callback that does not clear the pending timeout.
ClearTimeout_Keeps(ts) == ts

\* Line 195: if (this.debounceTimer) clearTimeout(this.debounceTimer).
ClearTimeout(ts) == ts \ Latest(ts)

\* A step that leaves everything but the pipeline and the timers alone.
Timed(A) ==
    A /\ UNCHANGED rateVars /\ UNCHANGED obsVars /\ UNCHANGED titled /\ UNCHANGED sideVars

\* The page changes. With the observer installed its callback runs: it clears
\* the pending timeout and sets a new one of DebounceMs. A timeout that is due
\* fires before the next notification.
Notify(S) ==
    /\ AddNodes(S)
    /\ IF observing
       THEN /\ 0 \notin timers
            /\ timers' = ClearTimeout(timers) \cup {DebounceMs}
            /\ quiet' = 0
            /\ flushes' = 0
            /\ burst' = IF quiet < DebounceMs THEN 2 ELSE 1
       ELSE UNCHANGED timerVars

\* A timeout is due: its callback calls processMutations.
Flush ==
    /\ 0 \in timers
    /\ TimerFire
    /\ timers' = timers \ {0}
    /\ flushes' = Min(flushes + 1, 2)
    /\ UNCHANGED <<quiet, burst>>

\* Time passes, up to the next timeout that is due.
Elapse ==
    /\ 0 \notin timers
    /\ timers # {} \/ quiet < DebounceMs
    /\ LET d == IF timers = {} THEN Beat
                ELSE Min(Beat, CHOOSE t \in timers : \A u \in timers : t <= u)
       IN /\ timers' = {t - d : t \in timers}
          /\ quiet' = Min(quiet + d, DebounceMs)
    /\ UNCHANGED <<flushes, burst>>
    /\ UNCHANGED pipeVars

NextDebounce ==
    \/ Timed(ObservePage /\ UNCHANGED timerVars)
    \/ \E b \in Slots : Timed(GetRead(b) /\ UNCHANGED timerVars)
    \/ \E b \in Slots, out \in SearchOutcomes :
          Timed(SearchRespond(b, out) /\ UNCHANGED timerVars)
    \/ \E b \in Slots, out \in ProviderOutcomes :
          Timed(ProvidersRespond(b, out) /\ UNCHANGED timerVars)
    \/ \E b \in Slots : Timed(PutRead(b) /\ UNCHANGED timerVars)
    \/ \E b \in Slots : Timed(PutWrite(b) /\ UNCHANGED timerVars)
    \/ \E S \in SUBSET (Elems \ dom) : Timed(Notify(S))
    \/ Timed(Flush)
    \/ Timed(Elapse)

\* Time passes, a due timeout fires, and the runs in progress get their
\* answers.
TimePasses ==
    /\ WF_vars(Timed(Elapse))
    /\ WF_vars(Timed(Flush))
    /\ \A b \in Slots :
        /\ WF_vars(Timed(GetRead(b) /\ UNCHANGED timerVars))
        /\ WF_vars(\E out \in SearchOutcomes :
                      Timed(SearchRespond(b, out) /\ UNCHANGED timerVars))
        /\ WF_vars(\E out \in ProviderOutcomes :
                      Timed(ProvidersRespond(b, out) /\ UNCHANGED timerVars))
        /\ WF_vars(Timed(PutRead(b) /\ UNCHANGED timerVars))
        /\ WF_vars(Timed(PutWrite(b) /\ UNCHANGED timerVars))

SpecDebounce == InitQuietPage /\ [][NextDebounce]_vars /\ TimePasses

\* The two posters' infos are gathered, in either order.
NextText ==
    /\ \E n \in {1, 2} : GetInfo(n)
    /\ UNCHANGED <<rateVars, pipeVars, obsVars, titled, timerVars, searchVars, countryVars,
                   scriptVars, originVars>>

\* Nothing else goes on: the page has no posters yet and the storage is empty.
InitTexts ==
    /\ InitClient
    /\ InitFilter
    /\ InitObservers
    /\ InitTitled
    /\ InitTimers
    /\ InitText
    /\ InitNoSearch
    /\ InitCountries
    /\ InitNoScript
    /\ InitOrigin
    /\ dom = {}
    /\ cacheKey = [x \in Elems |-> "k1"]
    /\ movieCache = EmptyCache
SpecText == InitTexts /\ [][NextText]_vars

\* searchMovie on each response, on a page where nothing else goes on.
InitResponses ==
    /\ InitClient
    /\ InitFilter
    /\ InitObservers
    /\ InitTitled
    /\ InitTimers
    /\ InitNoText
    /\ InitSearch
    /\ InitCountries
    /\ InitNoScript
    /\ InitOrigin
    /\ dom = {}
    /\ cacheKey = [x \in Elems |-> "k1"]
    /\ movieCache = EmptyCache

NextSearch ==
    /\ SearchMovie
    /\ UNCHANGED <<rateVars, pipeVars, obsVars, titled, timerVars, textVars, countryVars,
                   scriptVars, originVars>>

SpecSearch == InitResponses /\ [][NextSearch]_vars

\* The background script answering the messages of two pages.
NextCountries ==
    /\ \/ \E r \in Askers : Ask(r)
       \/ \E r \in Askers, read \in KeyReads : KeyRead(r, read)
       \/ \E r \in Askers, f \in Fetches : Fetched(r, f)
    /\ UNCHANGED <<rateVars, pipeVars, obsVars, titled, timerVars, textVars, searchVars,
                   scriptVars, originVars>>

SpecCountries == InitQuietPage /\ [][NextCountries]_vars

(***************************************************************************)
(* Claims about the TMDBClient                                             *)
(***************************************************************************)
\* A step in which a response arrives at lookup c.
Responded(c) == callers[c].pc = "fetch" /\ callers'[c].pc = "idle"

\* C1: whatever responses the client has received, minRPS <= rps <= maxRPS.
C1_RateWithinBounds == minRPS <= rps /\ rps <= maxRPS

\* C1 witness: a run of 429 responses has brought the rate to its floor.
C1_Witness == run429 > 0 /\ rps = minRPS

\* C2: a 429 sets rps to max(rps - 2, minRPS), a success sets it to
\* min(rps + 1, maxRPS); a run of RunToFloor 429 responses ends at minRPS and a
\* run of RunToCeiling successes ends at maxRPS.
C2_RateSteps ==
    /\ [][\A c \in Callers : Responded(c) =>
            /\ run429' > 0 => rps' = (IF rps - 2 >= minRPS THEN rps - 2 ELSE minRPS)
            /\ runOk' > 0 => rps' = (IF rps + 1 <= maxRPS THEN rps + 1 ELSE maxRPS)
            /\ (run429' = 0 /\ runOk' = 0) => rps' = rps]_vars
    /\ [](run429 >= RunToFloor => rps = minRPS)
    /\ [](runOk >= RunToCeiling => rps = maxRPS)

\* C2 witness: RunToFloor 429 responses in a row have arrived.
C2_Witness == run429 >= RunToFloor /\ rps = minRPS

\* C3: every outbound request leaves at least 1000/rps ms after the previous
\* one, rps being the rate when rateLimit computed its delay.
C3_RequestsSpaced == lastGapOk

\* C4: a response that is neither 2xx nor 429 makes the lookup throw an error
\* that carries the status, and leaves rps as it was.
C4_FailureKeepsRate ==
    [][\A c \in Callers :
         (Responded(c) /\ ~IsOk(lastReturn'.status) /\ lastReturn'.status # 429) =>
            /\ rps' = rps
            /\ lastReturn'.result.error
            /\ lastReturn'.result.status = lastReturn'.status
            /\ lastReturn'.result.text = FailText(callers[c].kind)]_vars

\* C4 witness: a providers lookup has thrown on a 500.
C4_Witness ==
    /\ lastReturn.status = 500
    /\ lastReturn.kind = "providers"
    /\ lastReturn.result.error

(***************************************************************************)
(* The two cache tiers                                                     *)
(***************************************************************************)
InSeq(x, seq) == \E n \in 1..Len(seq) : seq[n] = x

\* The storage read of run b's getMovieCacheEntry returns in this step.
ReadReturned(b) == batches[b].pc = "getRead" /\ batches'[b] # batches[b]

\* The storage write of run b's setMovieCache lands in this step.
Wrote(b) == batches[b].pc = "putWrite" /\ batches'[b].pc # "putWrite"

\* C5: an element whose key has, in the memory tier or in the persisted tier,
\* an entry younger than the lifetime when it is classified is never the
\* element a search or an availability request is out for.
C5_FreshNeverRequested ==
    \A b \in Slots :
        batches[b].pc \in {"search", "providers"}
            => Current(batches[b]) \notin batches[b].queuedFresh

\* C6: once setMovieCache(key, e) has been called, the memory tier, which is
\* what getMovieCacheEntry(key) returns, holds e until the next setMovieCache
\* for the key.
C6_ReadYourWrites ==
    \A k \in Keys : lastSet[k] # NoEntry => memoryCache[k] = lastSet[k]

\* C7: getMovieCacheEntry asks the storage only when the memory tier has no
\* entry for the key; when the read finds an entry, that entry is in the
\* memory tier and is what the caller classifies the element by; when it
\* finds none the element is queued as uncached and no tier changes; an
\* element classified without a put is marked by the memory tier's entry.
C7_ReadPath ==
    [][/\ \A b \in Slots :
             ReadReturned(b) =>
                 LET x == Head(batches[b].infos)
                     k == CacheKey(x)
                     entry == movieCache[k]
                 IN /\ movieCache' = movieCache
                    /\ IF entry # NoEntry
                       THEN /\ memoryCache' = [memoryCache EXCEPT ![k] = entry]
                            /\ x \in processedElements'
                            /\ mark'[x] = ~HasProvider(entry.providers)
                            /\ InSeq(x, batches'[b].expired) <=> isCacheExpired(entry, now)
                            /\ ~InSeq(x, batches'[b].uncached)
                       ELSE /\ memoryCache' = memoryCache
                            /\ InSeq(x, batches'[b].uncached)
       /\ \A b \in Slots :
             (batches'[b].pc = "getRead" /\ batches'[b] # batches[b])
                 => memoryCache'[CacheKey(Head(batches'[b].infos))] = NoEntry
       /\ (\A b \in Slots : ~Wrote(b)) =>
             \A x \in processedElements' \ processedElements :
                 /\ memoryCache'[CacheKey(x)] # NoEntry
                 /\ mark'[x] = ~HasProvider(memoryCache'[CacheKey(x)].providers)
      ]_vars

\* A storage read has found an entry and put it into the memory tier.
C7_Witness ==
    \E k \in Keys : /\ memoryCache[k] # NoEntry
                    /\ lastSet[k] = NoEntry
                    /\ memoryCache[k] = movieCache[k]
                    /\ \E x \in processedElements : CacheKey(x) = k

\* C8: when the write of setMovieCache(key, e) lands and no other write has
\* landed since its read, both tiers map key to e and the other keys of the
\* persisted map are as they were.
C8_PutSetsBothTiers ==
    [][\A b \in Slots :
          (Wrote(b) /\ batches[b].overtook = NoWrite) =>
              LET k == CacheKey(Current(batches[b]))
                  e == batches[b].putMap[k]
              IN /\ memoryCache'[k] = e
                 /\ movieCache'[k] = e
                 /\ \A j \in Keys \ {k} : movieCache'[j] = movieCache[j]
      ]_vars

\* C9: at no time have two setMovieCache calls of the page read the persisted
\* map without having written it back.
C9_WritesSerialized ==
    Cardinality({b \in Slots : batches[b].pc = "putWrite"}) <= 1

\* C10: when the write of a put lands after the write of an overlapping put
\* for another key, the persisted map lacks the entry of the put that wrote
\* first and the memory tier holds it.
C10_FirstWriterLost ==
    [][\A b \in Slots :
          (/\ Wrote(b)
           /\ batches[b].overtook # NoWrite
           /\ batches[b].overtook.key # CacheKey(Current(batches[b])))
          => /\ movieCache'[batches[b].overtook.key] # batches[b].overtook.entry
             /\ memoryCache'[batches[b].overtook.key] = batches[b].overtook.entry
      ]_vars
(***************************************************************************)
(* Classification and resolution                                           *)
(***************************************************************************)
\* Run b classifies elements in this step: observePage or processMutations
\* starts it, or its storage read returns.
Classifier(b) ==
    \/ ~started /\ started' /\ b = "batchA"
    \/ /\ debounceTimer /\ ~debounceTimer'
       /\ b = FirstFree
       /\ Unprocessed(ToSeq(dom), processedElements) # <<>>
    \/ ReadReturned(b)

\* The elements run b has to classify at the beginning of the step, and those
\* it has classified at the end.
StepInfos(b) ==
    IF batches[b].pc = "getRead" THEN batches[b].infos
    ELSE Collect(ToSeq(dom), processedElements)
Classified(b) == {x \in Elems : InSeq(x, StepInfos(b)) /\ ~InSeq(x, batches'[b].infos)}

\* What getMovieCacheEntry returned for element x in this step: the storage's
\* answer for the element that waited for it, the memory tier's for the others.
Returned(b, x) ==
    IF batches[b].pc = "getRead" /\ x = Head(batches[b].infos)
    THEN movieCache[CacheKey(x)]
    ELSE memoryCache'[CacheKey(x)]

\* C11: an element whose cached entry is returned goes to the refresh queue
\* exactly when now - timestamp >= 12 hours, and, expired or not, is marked by
\* the entry's providers and counts as processed.
C11_ExpiryBoundary ==
    [][\A b \in Slots : Classifier(b) =>
          \A x \in Classified(b) :
              LET e == Returned(b, x) IN
              e # NoEntry =>
                  /\ InSeq(x, batches'[b].expired)
                        <=> (now - e.timestamp >= 12 * 60 * 60 * 1000)
                  /\ mark'[x] = ~(\E n \in 1..Len(e.providers) : e.providers[n] = "netflix")
                  /\ x \in processedElements'
      ]_vars

\* One element waits for its refresh with an entry aged exactly 12 hours, and
\* another, whose entry is as old, was classified earlier and is in no queue.
C11_Witness ==
    /\ now = CACHE_LIFETIME_MS
    /\ \E x, y \in Elems :
          /\ InSeq(x, batches["batchA"].expired)
          /\ memoryCache[CacheKey(x)].timestamp = 0
          /\ ~mark[x]
          /\ y \in processedElements
          /\ ~InSeq(y, batches["batchA"].expired)
          /\ memoryCache[CacheKey(y)].timestamp = 0
          /\ lastSet[CacheKey(y)] = NoEntry
\* C12: every element classified in a step is a fresh hit (flag from the
\* cached providers, in no queue), a stale hit (flag from the cached providers,
\* in the refresh queue only, while the run has not yet sent a request) or a
\* miss (in the miss queue only, flag untouched).
C12_ThreeOutcomes ==
    [][\A b \in Slots : Classifier(b) =>
          \A x \in Classified(b) :
              LET e == Returned(b, x)
                  q == batches'[b]
              IN IF e = NoEntry
                 THEN /\ InSeq(x, q.uncached) /\ ~InSeq(x, q.expired)
                      /\ mark'[x] = mark[x]
                 ELSE /\ ~InSeq(x, q.uncached)
                      /\ InSeq(x, q.expired) <=> (now - e.timestamp >= CACHE_LIFETIME_MS)
                      /\ mark'[x] = ~HasProvider(e.providers)
                      /\ x \in processedElements'
                      /\ batches[b].pc \in {"idle", "getRead"}
      ]_vars

\* A run has classified one element as a miss and another as a stale hit,
\* whose flag shows the cached providers, and has sent its first request.
C12_Witness ==
    \E b \in Slots :
        /\ batches[b].pc = "search"
        /\ batches[b].uncached # <<>>
        /\ batches[b].expired # <<>>
        /\ ~mark[Head(batches[b].expired)]
        /\ Head(batches[b].uncached) \notin processedElements
\* A run that has sent a request and not finished its last element.
Resolving(b) == batches[b].pc \in {"search", "providers", "putRead", "putWrite"}

\* C13: a run that has sent a request has no element left to classify, and
\* while it has misses left the element it is resolving is one of them.
C13_ClassifyThenMissesThenStale ==
    \A b \in Slots :
        Resolving(b) =>
            /\ batches[b].infos = <<>>
            /\ batches[b].uncached # <<>> => InSeq(batches[b].cur, batches[b].uncached)
            /\ batches[b].uncached = <<>> => InSeq(batches[b].cur, batches[b].expired)

\* A run is refreshing a stale hit after it has resolved a miss.
C13_Witness ==
    \E b \in Slots, y \in Elems :
        /\ batches[b].pc = "search"
        /\ batches[b].uncached = <<>>
        /\ InSeq(batches[b].cur, batches[b].expired)
        /\ y # batches[b].cur
        /\ y \in processedElements
        /\ lastSet[CacheKey(y)] # NoEntry
\* C14: when the write of a miss lands whose first search response was a
\* match and whose first availability response a provider list, one search
\* request, one availability request and one put have been made for it, and
\* the persisted entry holds the id and the list of these responses.
C14_OneOfEach ==
    [][\A b \in Slots :
          (/\ Wrote(b)
           /\ InSeq(batches[b].cur, batches[b].uncached)
           /\ tally[b].firstSearch = "match"
           /\ tally[b].firstProv = "listed")
          => /\ tally[b].searches = 1
             /\ tally[b].provs = 1
             /\ tally[b].puts = 1
             /\ movieCache'[CacheKey(batches[b].cur)].tmdbId = tally[b].id
             /\ movieCache'[CacheKey(batches[b].cur)].providers = tally[b].list
             /\ tally[b].id \in MovieIds
      ]_vars

\* The put of a miss resolved at the first attempts has read the storage.
C14_Witness ==
    \E b \in Slots :
        /\ batches[b].pc = "putWrite"
        /\ InSeq(batches[b].cur, batches[b].uncached)
        /\ tally[b].firstSearch = "match"
        /\ tally[b].firstProv = "listed"
        /\ tally[b].puts = 1
        /\ batches[b].putMap[CacheKey(batches[b].cur)].tmdbId \in MovieIds
\* C15: when the write lands for an element whose search returned no result,
\* no availability request has been made for it, the persisted entry has no
\* tmdbId and no providers, and the element is marked unavailable.
C15_EmptySearch ==
    [][\A b \in Slots :
          (Wrote(b) /\ tally[b].last = "empty")
          => /\ tally[b].provs = 0
             /\ movieCache'[CacheKey(batches[b].cur)].tmdbId = 0
             /\ movieCache'[CacheKey(batches[b].cur)].providers = <<>>
             /\ mark'[batches[b].cur]
      ]_vars

\* The put after an empty search has read the storage.
C15_Witness ==
    \E b \in Slots :
        /\ batches[b].pc = "putWrite"
        /\ tally[b].last = "empty"
        /\ tally[b].searches = 1

\* C16: no more than 3 search requests and 3 availability requests are made
\* for an element; the put that follows a failed response comes after the
\* third request and carries an entry without providers stamped with the
\* current time; when its write lands the element is marked unavailable.
C16_ThreeAttempts ==
    /\ [](\A b \in Slots : tally[b].searches <= 3 /\ tally[b].provs <= 3)
    /\ [][\A b \in Slots :
             /\ (/\ batches[b].pc \in {"search", "providers"}
                 /\ batches'[b].pc = "putRead"
                 /\ tally'[b].last = "failed")
                => /\ (IF batches[b].pc = "search" THEN tally[b].searches
                       ELSE tally[b].provs) = 3
                   /\ batches'[b].putEntry =
                         [tmdbId |-> 0, providers |-> <<>>, timestamp |-> now]
             /\ (/\ batches[b].pc \in {"search", "providers"}
                 /\ batches'[b] # batches[b]
                 /\ tally'[b].last = "failed"
                 /\ (IF batches[b].pc = "search" THEN tally[b].searches
                     ELSE tally[b].provs) = 3)
                => batches'[b].pc = "putRead"
             /\ (Wrote(b) /\ tally[b].last = "failed")
                => /\ mark'[batches[b].cur]
                   /\ movieCache'[CacheKey(batches[b].cur)].providers = <<>>
                   /\ movieCache'[CacheKey(batches[b].cur)].tmdbId = 0
         ]_vars

\* The third availability request for an element has failed, at 12 hours, and
\* the put of the entry has read the storage.
C16_Witness ==
    \E b \in Slots :
        /\ batches[b].pc = "putWrite"
        /\ tally[b].last = "failed"
        /\ tally[b].provs = 3
        /\ batches[b].putMap[CacheKey(batches[b].cur)].timestamp = CACHE_LIFETIME_MS
\* C17: a run that started after the entry for a key had been written
\* following exhausted retries, less than 12 hours after that entry's time,
\* has no request out for an element with that key while the entry is younger
\* than 12 hours.
C17_NegativeEntryHolds ==
    \A b \in Slots :
        batches[b].pc \in {"search", "providers"} =>
            LET k == CacheKey(batches[b].cur) IN
            ~(knew[b][k] >= 0 /\ now - knew[b][k] < CACHE_LIFETIME_MS)
\* A storage call of run b is rejected in this step.
Rejected(b) == faults' = faults + 1 /\ batches'[b] # batches[b]

\* C18: when the storage read of a classification is rejected, the element is
\* put in the miss queue and the run does not end.
C18_ReadFailureIsMiss ==
    [][\A b \in Slots :
          (Rejected(b) /\ batches[b].pc = "getRead")
          => /\ InSeq(Head(batches[b].infos), batches'[b].uncached)
             /\ batches'[b].pc # "idle"
      ]_vars

\* C19: a run that is resolving an element ends only when that element is the
\* last of its queues, whatever fails.
C19_FailuresIsolated ==
    [][\A b \in Slots :
          (Resolving(b) /\ batches'[b].pc = "idle")
          => Len(batches[b].uncached) + Len(batches[b].expired) = 1
      ]_vars
\* Run b holds element x in its list of elements or in one of its queues.
Holds(b, x) ==
    \/ InSeq(x, batches[b].infos)
    \/ InSeq(x, batches[b].uncached)
    \/ InSeq(x, batches[b].expired)

\* C20: no element is held by two runs at a time, and no two runs have a
\* request out for the same element.
C20_CollectedOnce ==
    \A x \in Elems :
        /\ Cardinality({b \in Slots : Holds(b, x)}) <= 1
        /\ Cardinality({b \in Slots : /\ batches[b].pc \in {"search", "providers"}
                                      /\ batches[b].cur = x}) <= 1

(***************************************************************************)
(* Termination, debounce, texts                                            *)
(***************************************************************************)
\* Element x gets its availability flag and joins the processed set in this
\* step: a run classifies it as a hit, or the put of its resolution lands.
Applied(x) ==
    \/ \E b \in Slots : Classifier(b) /\ x \in Classified(b) /\ Returned(b, x) # NoEntry
    \/ \E b \in Slots : Wrote(b) /\ batches[b].cur = x

C22_Debounced ==
    /\ [](Cardinality(timers) <= 1)
    /\ [](flushes <= 1)
    /\ [][(quiet' = 0 /\ quiet # 0) => timers' = {DebounceMs}]_vars
    /\ [][flushes' > flushes => (quiet = DebounceMs /\ flushes = 0)]_vars
    /\ ([]<>(quiet < DebounceMs) \/ <>[](timers = {}))

\* C22 witness: a burst of several notifications, each less than DebounceMs
\* after the one before, is over and has started one run, which is resolving
\* a poster the burst brought.
C22_Witness ==
    /\ burst = 2
    /\ quiet = DebounceMs
    /\ flushes = 1
    /\ timers = {}
    /\ \E b \in Slots : batches[b].pc = "search" /\ ~batches[b].initial

\* The text of poster n, trimmed, ends with a parenthesized group of four
\* digits.
EndsWithYear(n) ==
    LET t == trim(text[n]) IN Len(t) >= 6 /\ MatchAt(t, Len(t) - 5)

\* C23: for a text that ends with "(YYYY)", the year is those four digits and
\* the title is the text before the suffix, trimmed.
C23_TrailingYear ==
    \A n \in {1, 2} :
        (info[n].done /\ EndsWithYear(n)) =>
            LET t == trim(text[n]) IN
            /\ info[n].year = SubSeq(t, Len(t) - 4, Len(t) - 1)
            /\ info[n].title = trim(SubSeq(t, 1, Len(t) - 6))

\* C24: a year is extracted only from a text that ends with the group; any
\* other text gives an empty year and its trimmed self as title.
C24_YearOnlyAsSuffix ==
    \A n \in {1, 2} :
        (info[n].done /\ ~EndsWithYear(n)) =>
            /\ info[n].year = <<>>
            /\ info[n].title = trim(text[n])

\* The normalized title in the cache key of poster n: the key without "-" and
\* the year.
KeyTitle(n) == SubSeq(info[n].cacheKey, 1, Len(info[n].cacheKey) - 1 - Len(info[n].year))

\* C25: the normalized title is lower case, made of word characters and
\* single spaces, without a space at either end, and normalizing it again
\* changes nothing.
C25_Normalized ==
    \A n \in {1, 2} :
        info[n].done =>
            LET t == KeyTitle(n) IN
            /\ \A j \in 1..Len(t) : (IsWord(t[j]) /\ t[j] \notin UpperLetters) \/ IsSpace(t[j])
            /\ \A j \in 1..(Len(t) - 1) : ~(IsSpace(t[j]) /\ IsSpace(t[j + 1]))
            /\ t # <<>> => (~IsSpace(t[1]) /\ ~IsSpace(t[Len(t)]))
            /\ normalizeTitle(t) = t

\* A text without its punctuation and in lower case.
Fold(t) == toLowerCase(SelectSeq(t, LAMBDA c : ~IsPunctuation(c)))

\* C30: two posters whose texts differ only in letter case or punctuation and
\* that have the same year get the same cache key.
C30_SameKey ==
    (/\ info[1].done
     /\ info[2].done
     /\ Fold(text[1]) = Fold(text[2])
     /\ info[1].year = info[2].year)
    => info[1].cacheKey = info[2].cacheKey

\* C26: on an ok response searchMovie returns null when total_results is 0,
\* and otherwise an entry of the results that no other entry exceeds in
\* popularity.
C26_MostPopular ==
    (found # NotCalled /\ IsOk(response.status)) =>
        LET results == response.data.results IN
        IF response.data.total_results = 0
        THEN found = Null
        ELSE /\ \E n \in 1..Len(results) : found = Movie(results[n])
             /\ \A n \in 1..Len(results) : found.popularity >= results[n].popularity

\* C26 witness: the most popular of three results is the last of the page.
C26_Witness ==
    /\ found.kind = "movie"
    /\ Len(response.data.results) = MaxResults
    /\ found.id = MaxResults
    /\ \A n \in 1..(MaxResults - 1) :
           response.data.results[n].popularity < found.popularity

\* Some provider of the list is one of the selected providers, names compared
\* in lower case.
OnTarget(providers) ==
    \E n \in 1..Len(providers), p \in selectedProviders :
        LowerName(providers[n]) = LowerName(p)

\* C27: when a cached entry or a resolved lookup is applied to an element,
\* the element is flagged unavailable afterwards exactly when no provider of
\* the applied list is a selected one.
C27_FlagFollowsProviders ==
    [][\A b \in Slots, x \in Elems :
          /\ (Classifier(b) /\ x \in Classified(b) /\ Returned(b, x) # NoEntry)
                => (mark'[x] <=> ~OnTarget(Returned(b, x).providers))
          /\ (Wrote(b) /\ batches[b].cur = x)
                => (mark'[x] <=> ~OnTarget(batches[b].putMap[CacheKey(x)].providers))
      ]_vars

\* C27 witness: one poster is flagged from a list without a selected
\* provider, the other is not flagged from a list that holds one behind
\* another provider.
C27_Witness ==
    /\ processedElements = Elems
    /\ \A b \in Slots : batches[b].pc = "idle"
    /\ mark["x1"] /\ movieCache[CacheKey("x1")].providers = <<"hulu">>
    /\ ~mark["x2"] /\ movieCache[CacheKey("x2")].providers = <<"hulu", "netflix">>

\* C28: a getCountries message is answered with a region list or with the
\* error payload, and a message that comes after a non-empty list has been
\* fetched is answered with that list without a request to TMDB.
C28_CountriesCached ==
    \A r \in Askers :
        /\ asks[r].answer.kind \in {"none", "list", "error"}
        /\ asks[r].after # NoAnswer =>
              /\ asks[r].pc = "idle"
              /\ asks[r].answer = asks[r].after

\* C29: a poster without a title is in no run's list or queues, is never the
\* element a run resolves, keeps its flag and is not marked processed.
C29_UntitledUntouched ==
    \A x \in Elems :
        ~titled[x] =>
            /\ \A b \in Slots : ~Holds(b, x) /\ batches[b].cur # x
            /\ ~mark[x]
            /\ x \notin processedElements

\* C29 witness: the initial run and a run after a mutation have both come
\* across the untitled poster x1; x2, added later, is being resolved.
C29_Witness ==
    /\ ~titled["x1"]
    /\ titled["x2"]
    /\ "x1" \in dom
    /\ observing
    /\ \E b \in Slots : batches[b].pc = "search" /\ batches[b].cur = "x2"

(***************************************************************************)
(* Entries, duplicates, refresh failures                                   *)
(***************************************************************************)
\* Run b calls setMovieCache for key k in this step: the memory tier gets the
\* entry the call was given.
Puts(b, k) ==
    /\ batches[b].pc \in {"search", "providers"}
    /\ batches'[b].pc = "putRead"
    /\ CacheKey(batches[b].cur) = k

\* C31: the entry a tier holds for a key changes only through a setMovieCache
\* for that key, which stores the whole entry it was given, stamped with the
\* time of the call; besides that the memory tier only takes over the
\* persisted entry of a key it has no entry for.
C31_EntriesReplacedWhole ==
    [][\A k \in Keys :
          /\ memoryCache'[k] # memoryCache[k] =>
                \/ \E b \in Slots : /\ Puts(b, k)
                                    /\ memoryCache'[k] = batches'[b].putEntry
                                    /\ memoryCache'[k].timestamp = now
                \/ memoryCache[k] = NoEntry /\ memoryCache'[k] = movieCache[k]
          /\ movieCache'[k] # movieCache[k] =>
                \E b \in Slots : /\ Wrote(b)
                                 /\ CacheKey(batches[b].cur) = k
                                 /\ movieCache'[k] = batches[b].putMap[k]
                                 /\ movieCache'[k] = lastSet[k]
      ]_vars

\* C33: when the put for a miss lands and the next miss of the run has the
\* same key, the search request for that next miss leaves in the same step,
\* with all its retries, although both tiers hold the entry just written; and
\* an element classified while an element of its key waits in the miss queue
\* and the storage has no entry for the key joins the miss queue.
C33_DuplicateMissesBothSearched ==
    [][\A b \in Slots :
          /\ (/\ Wrote(b)
              /\ Len(batches[b].uncached) >= 2
              /\ CacheKey(batches[b].uncached[1]) = CacheKey(batches[b].uncached[2]))
             => LET k == CacheKey(batches[b].uncached[1]) IN
                /\ batches'[b].pc = "search"
                /\ batches'[b].cur = batches[b].uncached[2]
                /\ batches'[b].retries = Retries
                /\ memoryCache'[k] = batches[b].putMap[k]
                /\ movieCache'[k] = batches[b].putMap[k]
          /\ \A x \in Elems, y \in Elems :
                (/\ Classifier(b)
                 /\ y \in Classified(b)
                 /\ x # y
                 /\ CacheKey(x) = CacheKey(y)
                 /\ movieCache[CacheKey(y)] = NoEntry
                 /\ InSeq(x, batches'[b].uncached))
                => InSeq(y, batches'[b].uncached)
      ]_vars

\* C33 witness: x1 and x2 have the same key; the put for x1 has landed, both
\* tiers hold its entry, and the search request for x2 is out.
C33_Witness ==
    /\ CacheKey("x1") = CacheKey("x2")
    /\ "x1" \in processedElements
    /\ memoryCache[CacheKey("x1")] = Entry(603, <<"netflix">>, 0)
    /\ movieCache[CacheKey("x1")] = Entry(603, <<"netflix">>, 0)
    /\ batches["batchA"].pc = "search"
    /\ batches["batchA"].cur = "x2"
    /\ batches["batchA"].uncached = <<"x2">>

\* C34: when the put of a catch block lands for an element of the refresh
\* queue, both tiers hold for its key the entry of the catch block: an empty
\* provider list and a time at least one lifetime later than that of the
\* entries earlier page loads wrote; the element, until then marked available
\* by the stale providers, is marked unavailable.
C34_FailedRefreshEmptiesEntry ==
    [][\A b \in Slots :
          (/\ Wrote(b)
           /\ batches[b].inCatch
           /\ batches[b].uncached = <<>>)
          => LET x == batches[b].cur
                 k == CacheKey(x)
                 e == movieCache'[k]
             IN /\ x = Head(batches[b].expired)
                /\ ~mark[x]
                /\ e = lastSet[k]
                /\ e.providers = <<>>
                /\ e.tmdbId = 0
                /\ e.timestamp >= CACHE_LIFETIME_MS
                /\ e.timestamp <= now
                /\ memoryCache'[k] = e
                /\ mark'[x]
                /\ x \in processedElements'
      ]_vars

\* C34 witness: x1 was marked available from its stale entry; its search has
\* failed three times and the write of the catch block's put is due.
C34_Witness ==
    /\ batches["batchA"].pc = "putWrite"
    /\ batches["batchA"].inCatch
    /\ batches["batchA"].cur = "x1"
    /\ batches["batchA"].expired = <<"x1">>
    /\ batches["batchA"].uncached = <<>>
    /\ tally["batchA"].searches = 3
    /\ ~mark["x1"]
    /\ movieCache[CacheKey("x1")] = Entry(603, <<"netflix">>, 0)
    /\ memoryCache[CacheKey("x1")] = Entry(0, <<>>, CACHE_LIFETIME_MS)

\* A put of some run is in flight: setMovieCache has set the memory tier and
\* its write has not landed.
PutInFlight == \E b \in Slots : batches[b].pc \in {"putRead", "putWrite"}

\* C39: while no put is in flight, every key the memory tier has an entry for
\* has the same entry in the persisted map.
C39_MemoryWithinPersisted ==
    ~PutInFlight =>
        \A k \in Keys : memoryCache[k] # NoEntry => movieCache[k] = memoryCache[k]

\* C39 witness: a run after a mutation is looking x2 up; the memory tier holds
\* for k1 the entry a put of the initial run wrote and nothing for k2.
C39_Witness ==
    /\ ~PutInFlight
    /\ observing
    /\ CacheKey("x1") = "k1"
    /\ CacheKey("x2") = "k2"
    /\ memoryCache["k1"] = Entry(603, <<"netflix">>, CACHE_LIFETIME_MS)
    /\ memoryCache["k2"] = NoEntry
    /\ batches["batchA"].pc = "providers"
    /\ batches["batchA"].cur = "x2"

\* C35: a 429 makes either lookup throw like a 404 or a 500 does, three of
\* them in a row take 6 off rps or bring it to minRPS; the put that follows
\* the third failed attempt stores an entry without providers, stamped not
\* later than now, and marks the element unavailable; and a run that started
\* less than 12 hours after such an entry was written has no request out for
\* an element of its key while the entry is younger than 12 hours.
C35_TooManyRequests ==
    /\ \A r \in minRPS..maxRPS :
          AdaptRps(AdaptRps(AdaptRps(r, 429), 429), 429) = Max(r - 6, minRPS)
    /\ \A kind \in Kinds :
          /\ LookupResult(kind, 429).error
          /\ LookupResult(kind, 429).text = LookupResult(kind, 500).text
    /\ \A b \in Slots :
          /\ (batches[b].pc = "putWrite" /\ batches[b].inCatch) =>
                LET e == batches[b].putMap[CacheKey(batches[b].cur)] IN
                /\ e.providers = <<>>
                /\ e.tmdbId = 0
                /\ e.timestamp >= 0
                /\ e.timestamp <= now
                /\ ~batches[b].avail
          /\ batches[b].pc \in {"search", "providers"} =>
                \A k \in Keys :
                    (/\ CacheKey(batches[b].cur) = k
                     /\ knew[b][k] >= 0)
                    => now - knew[b][k] >= CACHE_LIFETIME_MS

(***************************************************************************)
(* Settings, listeners, several filters                                    *)
(***************************************************************************)
\* C38: once a change of fadeUnavailable or unavailableOpacity has come after
\* the script's first read and no callback waits for the storage, the CSS
\* variable is the stored opacity (0.4 when none is stored) if fading is on
\* and 1 if it is off, with or without the toggle.
C38_OpacityFollowsStorage ==
    (page.notified /\ pending = <<>>) => css = FromStorage(settings)

\* The reads of the warning's listener that have not returned.
KeyReadsPending == Len(SelectSeq(pending, LAMBDA p : p.by = "key"))

\* C37: once the script has started without an API key, the filters started
\* and about to be started are as many as the storage changes that carried a
\* tmdbApiKey that is not empty; no filter goes away; and a step of one
\* filter leaves the rate, the memory tier and the processed elements of the
\* others as they are.
C37_OneFilterPerKeyChange ==
    /\ [](page.keyListener => Len(filters) + KeyReadsPending = keyChanges)
    /\ [][/\ Len(filters') >= Len(filters)
          /\ \A i \in 1..Len(filters) :
                filters'[i] # filters[i] =>
                   /\ Len(filters') = Len(filters)
                   /\ \A j \in 1..Len(filters) : j # i => filters'[j] = filters[j]
      ]_vars

\* C37 witness: the script started without a key, two changes brought one,
\* and each of the two filters has processed both posters with its own
\* client: the first was answered 429 three times, the second found the
\* entry of the first in the storage.
C37_Witness ==
    /\ page.keyListener
    /\ keyChanges = 2
    /\ Len(filters) = 2
    /\ filters[1].processedElements = Elems
    /\ filters[2].processedElements = Elems
    /\ filters[1].rps = initRPS - 6
    /\ filters[2].rps = initRPS
    /\ filters[1].apiKey # filters[2].apiKey

\* The storage.local.set of saveOptions lands in this step.
SaveLanded == save.pc = "set" /\ save'.pc # "set" /\ settings' = save.form

C36_EntryServesAnyCountry ==
    [][\A b \in Slots, x \in Elems :
          (/\ Classifier(b)
           /\ x \in Classified(b)
           /\ movieCache[CacheKey(x)] # NoEntry
           /\ ~isCacheExpired(movieCache[CacheKey(x)], now)
           /\ fetchedUnder[CacheKey(x)] # countryCode)
          => LET k == CacheKey(x)
                 e == movieCache[k]
             IN /\ e.providers = CountryProviders(fetchedUnder[k])
                /\ mark'[x] = ~HasProvider(e.providers)
                /\ x \in processedElements'
                /\ ~InSeq(x, batches'[b].uncached)
                /\ ~InSeq(x, batches'[b].expired)
                /\ memoryCache'[k] = e
                /\ movieCache'[k] = e
      ]_vars

\* C36 witness: a filter for DE, where the film is on no selected provider,
\* has marked x1 available from the entry a filter for US fetched, and has
\* made no request.
C36_Witness ==
    /\ countryCode = "DE"
    /\ fetchedUnder["k1"] = "US"
    /\ ~HasProvider(CountryProviders("DE"))
    /\ movieCache["k1"] = Entry(603, <<"netflix">>, 0)
    /\ memoryCache["k1"] = movieCache["k1"]
    /\ dom = {"x1"}
    /\ "x1" \in processedElements
    /\ ~mark["x1"]
    /\ observing
    /\ batches["batchA"].pc = "idle"
====
